---- MODULE Spec2Model ----
(***************************************************************************)
(* Session layer of the ctrlX BACnet MS/TP provider                        *)
(* (src/provider-source/helper/mstp_services.py).                          *)
(*                                                                         *)
(* Caller threads invoke the public operations of the module; one engine   *)
(* thread (the BACpypes core run-loop) completes the confirmed             *)
(* transactions (IOCBs) and runs the deferred functions.                   *)
(*                                                                         *)
(* Python strings are sequences of one-character strings, so that          *)
(* str.split, int() and float() are computed and not assumed.              *)
(***************************************************************************)
EXTENDS Integers, Sequences, FiniteSets, TLC

(* ------------------------------ bounds -------------------------------- *)

\* number of caller threads of the concurrent specification
NumThreads == 2
\* number of _MSTPApp objects that may ever be constructed
MaxApps == 2
\* capacity given to the core's list of deferred functions
MaxDeferred == 1
\* largest element count a device reports for its object list
MaxCount == 2
\* largest timeout argument of discover and whois, in ticks
MaxTimeout == 2
\* number of I-Am indications the engine may ever deliver
MaxIAm == 3
\* the poll interval of whois, `get(timeout=0.1)`, in ticks
PollTicks == 2

Threads == 1 .. NumThreads
NoThread == 0
None == [py |-> "None"]
\* a Python int
PyInt(n) == [py |-> "int", n |-> n]

VARIABLES
    lock,        \* _Core._lock: the thread holding it, NoThread when free
    started,     \* _Core._started
    app,         \* _Core._app: 0 is None, k is the k-th _MSTPApp constructed
    engine,      \* the "bacpypes-core" thread: "none", "running", "stopped"
    deferredFns, \* bacpypes.core deferred functions not yet run
    pc,          \* pc[t]: position of caller thread t
    op,          \* op[t]: the operation thread t is executing
    iocb,        \* iocb[t]: the IOCB of the call thread t is executing
    res,         \* res[t]: outcome of the last call thread t finished
    bodyRuns,    \* number of complete runs of the initialisation body
    launches,    \* number of engine threads launched
    submitted,   \* submitted[t]: transactions submitted by t's current call
    args,        \* args[t]: the arguments of t's read or write call
    disc,        \* disc[t]: the closure of t's call of discover
    who,         \* who[t]: the locals of t's call of whois
    iamQueue,    \* _Core._app._iam_queue
    enq,         \* number of I-Am records ever put in a queue
    defs,        \* _OBJECT_TYPE_DEFS
    device_cache,\* device_cache: device instance -> record
    cacheLog,    \* the direct calls of cache_device and clear_device_cache
    scan,        \* scan[t]: the run_device_scan thread t is executing
    orphan,      \* orphan[t]: the closure of a discover t left on timeout
    forwarded,   \* what _MSTPApp.indication did with the last APDU
    node         \* the DevicePropertyNode: _data and the last callback

vars == <<lock, started, app, engine, deferredFns, pc, op, iocb, res,
          bodyRuns, launches, submitted, args, disc, who, iamQueue, enq,
          defs, device_cache, cacheLog, scan, orphan, forwarded, node>>

(* ------------------------- Python str helpers -------------------------- *)

Digits == {"0", "1", "2", "3", "4", "5", "6", "7", "8", "9"}

DigitVal(c) ==
    CASE c = "0" -> 0 [] c = "1" -> 1 [] c = "2" -> 2 [] c = "3" -> 3
      [] c = "4" -> 4 [] c = "5" -> 5 [] c = "6" -> 6 [] c = "7" -> 7
      [] c = "8" -> 8 [] c = "9" -> 9

\* a Python str value
Str(s) == [py |-> "str", s |-> s]
IsStr(v) == v.py = "str"

RECURSIVE LStrip(_)
LStrip(s) == IF s # <<>> /\ Head(s) = " " THEN LStrip(Tail(s)) ELSE s

RECURSIVE RStrip(_)
RStrip(s) ==
    IF s # <<>> /\ s[Len(s)] = " " THEN RStrip(SubSeq(s, 1, Len(s) - 1)) ELSE s

\* str.strip()
Strip(s) == RStrip(LStrip(s))

\* index of the first occurrence of character c in s, 0 when absent
RECURSIVE IndexFrom(_, _, _)
IndexFrom(s, c, i) ==
    IF i > Len(s) THEN 0
    ELSE IF s[i] = c THEN i ELSE IndexFrom(s, c, i + 1)

RECURSIVE DigitsVal(_)
DigitsVal(s) ==
    IF s = <<>> THEN 0
    ELSE 10 * DigitsVal(SubSeq(s, 1, Len(s) - 1)) + DigitVal(s[Len(s)])

AllDigits(s) == \A i \in 1 .. Len(s) : s[i] \in Digits

\* the sign prefix of a numeric literal removed
Unsign(s) == IF s # <<>> /\ Head(s) \in {"+", "-"} THEN Tail(s) ELSE s
SignOf(s) == IF s # <<>> /\ Head(s) = "-" THEN -1 ELSE 1

\* int(str): surrounding blanks, an optional sign, at least one digit
IsIntLiteral(s) ==
    LET u == Unsign(Strip(s)) IN u # <<>> /\ AllDigits(u)
IntOfStr(s) == SignOf(Strip(s)) * DigitsVal(Unsign(Strip(s)))

\* a float is kept as the decimal m * 10^(-e) with no trailing zero digit
RECURSIVE NormFloat(_, _)
NormFloat(m, e) ==
    IF e > 0 /\ m % 10 = 0 THEN NormFloat(m \div 10, e - 1)
    ELSE [py |-> "float", m |-> m, e |-> e]

\* float(str): surrounding blanks, an optional sign, digits with at most one
\* point and at least one digit (exponents and inf/nan do not occur in the
\* alphabet of the literals modelled)
IsFloatLiteral(s) ==
    LET u == Unsign(Strip(s))
        p == IndexFrom(u, ".", 1)
        whole == IF p = 0 THEN u ELSE SubSeq(u, 1, p - 1)
        frac == IF p = 0 THEN <<>> ELSE SubSeq(u, p + 1, Len(u))
    IN  /\ AllDigits(whole) /\ AllDigits(frac)
        /\ Len(whole) + Len(frac) > 0
FloatOfStr(s) ==
    LET u == Unsign(Strip(s))
        p == IndexFrom(u, ".", 1)
        whole == IF p = 0 THEN u ELSE SubSeq(u, 1, p - 1)
        frac == IF p = 0 THEN <<>> ELSE SubSeq(u, p + 1, Len(u))
    IN  NormFloat(SignOf(Strip(s)) * DigitsVal(whole \o frac), Len(frac))

(* ----------------------- datatypes and schema ------------------------- *)

NoType == "NoType"

\* bacpypes.primitivedata.Atomic and its subclasses used by the parser
AtomicTypes ==
    {"Null", "Boolean", "Unsigned", "Integer", "Real", "Double",
     "OctetString", "CharacterString", "BitString", "Enumerated", "Date",
     "Time", "ObjectIdentifier", "AnyAtomic"}
\* bacpypes.constructeddata.Array instances and their subtype
ArrayTypes == {"ArrayOfObjectIdentifier", "ArrayOfPriorityValue"}
SubtypeOf(dt) ==
    IF dt = "ArrayOfObjectIdentifier" THEN "ObjectIdentifier"
    ELSE "PriorityValue"

IsAnyAtomic(dt) == dt = "AnyAtomic"
IsAtomic(dt) == dt \in AtomicTypes
IsArray(dt) == dt \in ArrayTypes

\* bacpypes.object.get_datatype on the object types and properties modelled;
\* every other pair is not resolved
get_datatype(ot, prop) ==
    CASE ot = "analogValue" /\ prop = "presentValue" -> "Real"
      [] ot = "multiStateValue" /\ prop = "presentValue" -> "Unsigned"
      [] ot = "integerValue" /\ prop = "presentValue" -> "Integer"
      [] ot = "binaryOutput" /\ prop = "presentValue" -> "Enumerated"
      [] ot = "schedule" /\ prop = "presentValue" -> "AnyAtomic"
      [] ot = "schedule" /\ prop = "effectivePeriod" -> "DateRange"
      [] ot = "device" /\ prop = "objectName" -> "CharacterString"
      [] ot = "device" /\ prop = "objectList" -> "ArrayOfObjectIdentifier"
      [] ot = "analogValue" /\ prop = "priorityArray" -> "ArrayOfPriorityValue"
      [] OTHER -> NoType

(* ------------------------- write-value parser -------------------------- *)

\* an encoded BACnet value
Enc(type, v) == [py |-> "bacnet", type |-> type, v |-> v]

\* outcomes of the parse of write_property
Encoded(x) == [kind |-> "encoded", enc |-> x]
CastError == [kind |-> "casterror", enc |-> None]
Unsupported == [kind |-> "unsupported", enc |-> None]

\* int(value) of Python: defined on str literals, bool, int and float
IntDefined(v) ==
    \/ IsStr(v) /\ IsIntLiteral(v.s)
    \/ v.py \in {"bool", "int", "float"}
RECURSIVE Pow10(_)
Pow10(n) == IF n = 0 THEN 1 ELSE 10 * Pow10(n - 1)
IntOf(v) ==
    CASE v.py = "str" -> IntOfStr(v.s)
      [] v.py = "bool" -> IF v.b THEN 1 ELSE 0
      [] v.py = "int" -> v.n
      [] v.py = "float" ->
            IF v.m >= 0 THEN v.m \div Pow10(v.e)
            ELSE -((-v.m) \div Pow10(v.e))

\* float(value) of Python
FloatDefined(v) ==
    \/ IsStr(v) /\ IsFloatLiteral(v.s)
    \/ v.py \in {"bool", "int", "float"}
FloatOf(v) ==
    CASE v.py = "str" -> FloatOfStr(v.s)
      [] v.py = "bool" -> NormFloat(IF v.b THEN 1 ELSE 0, 0)
      [] v.py = "int" -> NormFloat(v.n, 0)
      [] v.py = "float" -> v

\* the constructors write_property calls on a Python number: Unsigned
\* refuses a negative number, Integer takes any
NumCtor(type, n) ==
    IF type = "Unsigned" /\ n < 0 THEN CastError
    ELSE Encoded(Enc(type, PyInt(n)))

\* the names of the enumeration of a binary present value (BinaryPV)
BinaryPVNames == { <<"i", "n", "a", "c", "t", "i", "v", "e">>, <<"a", "c", "t", "i", "v", "e">> }

\* the constructor of an enumeration takes one of its names or a
\* non-negative integer
EnumAccepts(v) ==
    \/ IsStr(v) /\ v.s \in BinaryPVNames
    \/ v.py = "int" /\ v.n >= 0
    \/ v.py = "bool"

\* a bacpypes constructor called on the raw value: an enumeration decides by
\* its names; for the other types lib tells whether the library accepts the
\* value (the library decides, not this module)
LibCtor(type, v, lib) ==
    IF type = "Enumerated"
    THEN IF EnumAccepts(v) THEN Encoded(Enc(type, v)) ELSE CastError
    ELSE IF lib THEN Encoded(Enc(type, v)) ELSE CastError

\* value.split(":", 1) unpacked into code, raw
HasSeparator(s) == IndexFrom(s, ":", 1) # 0
SplitCode(s) == SubSeq(s, 1, IndexFrom(s, ":", 1) - 1)
SplitRaw(s) == SubSeq(s, IndexFrom(s, ":", 1) + 1, Len(s))

\* the lut of write_property: code -> type
LutCodes ==
    { <<"b">>, <<"u">>, <<"i">>, <<"r">>, <<"d">>, <<"o">>, <<"c">>,
      <<"b", "s">>, <<"d", "a", "t", "e">>, <<"t", "i", "m", "e">>,
      <<"i", "d">> }
\* the lut with the casters of u and i exchanged
LutTypeSwapped(code) ==
    CASE code = <<"b">> -> "Boolean"
      [] code = <<"u">> -> "Integer"
      [] code = <<"i">> -> "Unsigned"
      [] code = <<"r">> -> "Real"
      [] code = <<"d">> -> "Double"
      [] code = <<"o">> -> "OctetString"
      [] code = <<"c">> -> "CharacterString"
      [] code = <<"b", "s">> -> "BitString"
      [] code = <<"d", "a", "t", "e">> -> "Date"
      [] code = <<"t", "i", "m", "e">> -> "Time"
      [] code = <<"i", "d">> -> "ObjectIdentifier"

LutType(code) ==
    CASE code = <<"b">> -> "Boolean"
      [] code = <<"u">> -> "Unsigned"
      [] code = <<"i">> -> "Integer"
      [] code = <<"r">> -> "Real"
      [] code = <<"d">> -> "Double"
      [] code = <<"o">> -> "OctetString"
      [] code = <<"c">> -> "CharacterString"
      [] code = <<"b", "s">> -> "BitString"
      [] code = <<"d", "a", "t", "e">> -> "Date"
      [] code = <<"t", "i", "m", "e">> -> "Time"
      [] code = <<"i", "d">> -> "ObjectIdentifier"

\* lut[code](raw)
Caster(code, raw, lib) ==
    LET type == LutType(code) IN
    IF type \in {"Unsigned", "Integer"}
    THEN IF IsIntLiteral(raw) THEN NumCtor(type, IntOfStr(raw)) ELSE CastError
    ELSE IF type \in {"Real", "Double"}
    THEN IF IsFloatLiteral(raw) THEN Encoded(Enc(type, FloatOfStr(raw)))
         ELSE CastError
    ELSE LibCtor(type, Str(raw), lib)

NullLiteral == <<"n", "u", "l", "l">>

\* the try block of write_property: the value parsed and cast for dt
ParseWriteValue(dt, value, index, lib) ==
    IF IsStr(value) /\ value.s = NullLiteral
    THEN Encoded(Enc("Null", None))
    ELSE IF IsAnyAtomic(dt)
    THEN IF ~IsStr(value) THEN CastError
         ELSE IF ~HasSeparator(value.s) THEN CastError
         ELSE IF SplitCode(value.s) \notin LutCodes THEN CastError
         ELSE Caster(SplitCode(value.s), SplitRaw(value.s), lib)
    ELSE IF IsAtomic(dt)
    THEN IF dt \in {"Integer", "Unsigned"}
         THEN IF IntDefined(value) THEN NumCtor(dt, IntOf(value))
              ELSE CastError
         ELSE IF dt \in {"Real", "Double"}
         THEN IF FloatDefined(value) THEN Encoded(Enc(dt, FloatOf(value)))
              ELSE CastError
         ELSE LibCtor(dt, value, lib)
    ELSE IF IsArray(dt) /\ index # None
    THEN IF index.n = 0 THEN LibCtor("Integer", value, lib)
         ELSE IF IsAtomic(SubtypeOf(dt)) THEN LibCtor(SubtypeOf(dt), value, lib)
         ELSE Unsupported
    ELSE LibCtor(dt, value, lib)

(* ------------------------------ results -------------------------------- *)

NoResult == [op |-> "none", kind |-> "none", data |-> None]
\* the call returned d
Returned(o, d) == [op |-> o, kind |-> "returned", data |-> d]
\* the call ended with the uncaught exception e
Raised(o, e) == [op |-> o, kind |-> "raised", data |-> e]

\* {"error": msg}
ErrorDict(msg) == [r |-> "error", error |-> msg]
\* {"ack": True}
AckDict == [r |-> "ack"]
\* {"sent": True}
SentDict == [r |-> "sent"]
\* {"address":, "object":, "property":, "index":, "value":}
ValueDict(addr, ot, inst, prop, index, v) ==
    [r |-> "value", address |-> addr, object |-> <<ot, inst>>,
     property |-> prop, index |-> index, value |-> v]

(* ------------------------------- IOCB ---------------------------------- *)

NoIocb == [state |-> "none"]
\* IOCB(req) handed to app.request_io
NewIocb(req) ==
    [state |-> "pending", req |-> req, ioError |-> None, ioResponse |-> None]

SimpleAckPDU == [pdu |-> "SimpleAckPDU"]
\* a response that is neither acknowledgment expected
OtherPDU == [pdu |-> "ErrorPDU"]
ReadPropertyACK(ot, inst, prop, index, payload) ==
    [pdu |-> "ReadPropertyACK", objectIdentifier |-> <<ot, inst>>,
     propertyIdentifier |-> prop, propertyArrayIndex |-> index,
     propertyValue |-> payload]

\* Any.cast_out(klass): defined when the payload carries a klass value
CastOutDefined(payload, klass) == payload.type = klass
CastOut(payload) == payload.v

\* json.dumps(val) succeeds except on bytes
JsonDumpable(payload) == payload.type # "OctetString"
\* out_val of read_property
JsonValue(payload) ==
    IF JsonDumpable(payload) THEN CastOut(payload)
    ELSE [py |-> "str_of", of |-> CastOut(payload)]

(* ------------------------------ inputs --------------------------------- *)

\* the configurations an ini_path may name: [readable, address, interface]
Config(r, a, i) == [readable |-> r, address |-> a, interface |-> i]
ValidConfig == Config(TRUE, PyInt(25), Str(<<"t", "t", "y">>))
Configs ==
    { ValidConfig,
      Config(FALSE, None, None),
      Config(TRUE, None, Str(<<"t", "t", "y">>)),
      Config(TRUE, PyInt(25), None) }

\* object type, instance and property of a call
Target(ot, inst, prop) == [ot |-> ot, inst |-> inst, prop |-> prop]
AllTargets ==
    { Target("analogValue", 1, "presentValue"),
      Target("multiStateValue", 1, "presentValue"),
      Target("integerValue", 1, "presentValue"),
      Target("binaryOutput", 1, "presentValue"),
      Target("schedule", 1, "presentValue"),
      Target("schedule", 1, "effectivePeriod"),
      Target("device", 599, "objectName"),
      Target("device", 599, "objectList"),
      Target("analogValue", 1, "priorityArray"),
      Target("analogValue", 1, "bogus"),
      Target("widget", 1, "presentValue") }

\* the value argument of write_property
AllValues ==
    { Str(NullLiteral),
      Str(<<"u", ":", "7">>), Str(<<"u", ":", "a", "b", "c">>),
      Str(<<"u", ":", "-", "3">>), Str(<<"i", ":", "-", "3">>),
      Str(<<"r", ":", "1", ".", "5">>), Str(<<"d", ":", "2">>),
      Str(<<"b", "s", ":", "1">>), Str(<<"c", ":", "a", ":", "b">>),
      Str(<<"x", ":", "7">>), Str(<<":", "7">>),
      Str(<<"7">>), Str(<<" ", "4", "2">>), Str(<<"1", ".", "5">>),
      Str(<<"a", "b", "c">>), Str(<<"a", "c", "t", "i", "v", "e">>),
      [py |-> "bool", b |-> TRUE], PyInt(3), NormFloat(235, 1) }

\* "small" is the profile of the concurrent specification, "full" the one of
\* the specification of single calls, "txn" the one of the specification of
\* the confirmed transactions alone
ReadInputs(P) ==
    IF P = "full"
    THEN [addr : {None, PyInt(5)}, target : AllTargets,
          index : {None, PyInt(0), PyInt(2)}]
    ELSE [addr : {PyInt(5)},
          target : {Target("analogValue", 1, "presentValue")},
          index : {None}]

WriteInputs(P) ==
    IF P = "full"
    THEN [addr : {None, PyInt(5)}, target : AllTargets, value : AllValues,
          index : {None, PyInt(0), PyInt(2)},
          priority : {None, PyInt(-1), PyInt(0), PyInt(8), PyInt(17)}]
    ELSE [addr : {PyInt(5)},
          target : {Target("analogValue", 1, "presentValue")},
          value : {Str(<<"7">>)},
          index : {None}, priority : {PyInt(8)}]

\* the accessors called
AccessorInputs(P) ==
    IF P = "full" THEN {"get_app", "get_local_device", "get_port"}
    ELSE {"get_app"}

\* iocb.ioError as the engine may set it
IoErrors(P) ==
    IF P = "full"
    THEN {None, [py |-> "error", e |-> "timeout"],
          [py |-> "error", e |-> "reject"]}
    ELSE {None, [py |-> "error", e |-> "timeout"]}

\* the payloads of a ReadPropertyACK
Payloads(P) ==
    IF P = "full"
    THEN { Enc("Real", NormFloat(215, 1)), Enc("Unsigned", PyInt(2)),
           Enc("Enumerated", Str(<<"a", "c", "t", "i", "v", "e">>)),
           Enc("ObjectIdentifier", [py |-> "tuple", t |-> <<"analogValue", 1>>]),
           Enc("OctetString", [py |-> "bytes", b |-> <<1, 2>>]),
           Enc("ArrayOfObjectIdentifier",
               [py |-> "list", l |-> << <<"analogValue", 1>> >>]) }
    ELSE IF P = "small"
    THEN { Enc("Real", NormFloat(215, 1)), Enc("Real", NormFloat(7, 0)) }
    ELSE { Enc("Real", NormFloat(215, 1)) }

\* iocb.ioResponse as the engine may set it for the request req
IoResponses(P, req) ==
    IF P = "full"
    THEN {None, SimpleAckPDU, OtherPDU}
         \cup
         IF req.service # "ReadProperty" THEN {}
         ELSE { ReadPropertyACK(tg.ot, tg.inst, tg.prop, ix, pl) :
                  tg \in {req.target, Target("device", 599, "objectList"),
                          Target("widget", 1, "presentValue")},
                  ix \in {req.index, None, PyInt(0)},
                  pl \in Payloads(P) }
    ELSE IF req.service # "ReadProperty" THEN {SimpleAckPDU, OtherPDU}
    ELSE { ReadPropertyACK(req.target.ot, req.target.inst, req.target.prop,
                           req.index, pl) : pl \in Payloads(P) }

(* ---------------------------- device cache ----------------------------- *)

\* the number of calls of cache_device and clear_device_cache followed
MaxCacheOps == 2

\* an empty dict
EmptyDict == [k \in {} |-> None]

\* no run_device_scan
NoScan == [state |-> "none"]

\* d.get(k)
DictGet(d, k) == IF k \in DOMAIN d THEN d[k] ELSE None

\* d[k] = v
DictPut(d, k, v) ==
    [x \in DOMAIN d \cup {k} |-> IF x = k THEN v ELSE d[x]]

\* the device dicts handed to cache_device: two for the same instance, one
\* without "source_mac", one without "device_instance"
CacheRecords ==
    { [device_instance |-> 0, source_mac |-> 1],
      [device_instance |-> 0, source_mac |-> 2],
      [device_instance |-> 10],
      [source_mac |-> 1] }

\* the device_id arguments of the lookups
CacheKeys == {0, 10, 20}

\* `if not device_id: return`
InstanceFalsy(device) ==
    \/ "device_instance" \notin DOMAIN device
    \/ device.device_instance = 0

\* device.get("device_instance") is None
InstanceMissing(device) == "device_instance" \notin DOMAIN device

\* the dict after cache_device(device)
CacheDevice(cache, device) ==
    IF InstanceMissing(device) THEN cache
    ELSE DictPut(cache, device.device_instance, device)

\* the value get_mac_for_device returns; `not dev` holds of None and of an
\* empty dict
MacOf(cache, device_id) ==
    LET dev == DictGet(cache, device_id) IN
    IF dev = None \/ DOMAIN dev = {} THEN None
    ELSE IF "source_mac" \in DOMAIN dev THEN PyInt(dev.source_mac)
    ELSE None

\* a call that runs from its beginning to its return in one step
Atomic(t, o, a, r) ==
    /\ pc[t] = "idle"
    /\ op' = [op EXCEPT ![t] = o]
    /\ args' = [args EXCEPT ![t] = a]
    /\ res' = [res EXCEPT ![t] = r]
    /\ UNCHANGED <<lock, started, app, engine, deferredFns, pc, iocb,
                   bodyRuns, launches, submitted, disc, who, iamQueue, enq,
                   scan>>
    /\ UNCHANGED <<orphan, forwarded, node>>

cache_device(t, device) ==
    /\ Len(cacheLog) < MaxCacheOps
    /\ Atomic(t, "cache_device", None, Returned("cache_device", None))
    /\ device_cache' = CacheDevice(device_cache, device)
    /\ cacheLog' = Append(cacheLog, [call |-> "cache_device",
                                     device |-> device])
    /\ defs' = defs

clear_device_cache(t) ==
    /\ Len(cacheLog) < MaxCacheOps
    /\ Atomic(t, "clear_device_cache", None,
              Returned("clear_device_cache", None))
    /\ device_cache' = EmptyDict
    /\ cacheLog' = Append(cacheLog, [call |-> "clear_device_cache"])
    /\ defs' = defs

get_device_by_id(t, device_id) ==
    /\ Atomic(t, "get_device_by_id", [device_id |-> device_id],
              Returned("get_device_by_id", DictGet(device_cache, device_id)))
    /\ UNCHANGED <<defs, device_cache, cacheLog>>

get_mac_for_device(t, device_id) ==
    /\ Atomic(t, "get_mac_for_device", [device_id |-> device_id],
              Returned("get_mac_for_device", MacOf(device_cache, device_id)))
    /\ UNCHANGED <<defs, device_cache, cacheLog>>

(* ------------------- schema and present-value helpers ------------------ *)

\* the number of entries of a schema file
MaxEntries == 2

LowerAlpha == <<"a", "b", "c", "d", "e", "f", "g", "h", "i", "j", "k", "l", "m", "n", "o", "p", "q", "r", "s", "t", "u", "v", "w", "x", "y", "z">>
UpperAlpha == <<"A", "B", "C", "D", "E", "F", "G", "H", "I", "J", "K", "L", "M", "N", "O", "P", "Q", "R", "S", "T", "U", "V", "W", "X", "Y", "Z">>

\* the position of character c in alphabet a, 0 when absent
AlphaIndex(a, c) == IndexFrom(a, c, 1)

\* str.upper() and str.lower()
Upper(s) ==
    [i \in DOMAIN s |->
        IF AlphaIndex(LowerAlpha, s[i]) # 0
        THEN UpperAlpha[AlphaIndex(LowerAlpha, s[i])] ELSE s[i]]
Lower(s) ==
    [i \in DOMAIN s |->
        IF AlphaIndex(UpperAlpha, s[i]) # 0
        THEN LowerAlpha[AlphaIndex(UpperAlpha, s[i])] ELSE s[i]]

\* a Python bool
PyBool(b) == [py |-> "bool", b |-> b]

DigitChars == <<"0", "1", "2", "3", "4", "5", "6", "7", "8", "9">>

\* str(n) of a natural number
RECURSIVE NatChars(_)
NatChars(n) ==
    IF n < 10 THEN <<DigitChars[n + 1]>>
    ELSE NatChars(n \div 10) \o <<DigitChars[(n % 10) + 1]>>

\* the digits of n on exactly w places
RECURSIVE PadChars(_, _)
PadChars(n, w) ==
    IF w = 0 THEN <<>>
    ELSE PadChars(n \div 10, w - 1) \o <<DigitChars[(n % 10) + 1]>>

Abs(n) == IF n < 0 THEN -n ELSE n

\* str(value) on None, str, bool, int and float
PyStr(v) ==
    CASE v.py = "None" -> <<"N", "o", "n", "e">>
      [] v.py = "str" -> v.s
      [] v.py = "bool" -> IF v.b THEN <<"T", "r", "u", "e">> ELSE <<"F", "a", "l", "s", "e">>
      [] v.py = "int" ->
            (IF v.n < 0 THEN <<"-">> ELSE <<>>) \o NatChars(Abs(v.n))
      [] v.py = "float" ->
            (IF v.m < 0 THEN <<"-">> ELSE <<>>)
            \o NatChars(Abs(v.m) \div Pow10(v.e)) \o <<".">>
            \o (IF v.e = 0 THEN <<"0">>
                ELSE PadChars(Abs(v.m) % Pow10(v.e), v.e))

\* _TRUE_WORDS
TrueWords ==
    { <<"1">>, <<"t", "r", "u", "e">>, <<"o", "n">>, <<"a", "c", "t", "i", "v", "e">>, <<"e", "n", "a", "b", "l", "e", "d">>,
      <<"e", "n", "a", "b", "l", "e">>, <<"s", "e", "t">> }

\* _FALSE_WORDS without reset and clear
FalseWordsShort ==
    { <<"0">>, <<"f", "a", "l", "s", "e">>, <<"o", "f", "f">>, <<"i", "n", "a", "c", "t", "i", "v", "e">>, <<"d", "i", "s", "a", "b", "l", "e", "d">>,
      <<"d", "i", "s", "a", "b", "l", "e">> }

\* _FALSE_WORDS
FalseWords ==
    { <<"0">>, <<"f", "a", "l", "s", "e">>, <<"o", "f", "f">>, <<"i", "n", "a", "c", "t", "i", "v", "e">>, <<"d", "i", "s", "a", "b", "l", "e", "d">>,
      <<"d", "i", "s", "a", "b", "l", "e">>, <<"r", "e", "s", "e", "t">>, <<"c", "l", "e", "a", "r">> }

\* the value a helper returns, or the exception it raises
Value(v) == [ok |-> TRUE, v |-> v]
Raises(e) == [ok |-> FALSE, e |-> e]

\* _to_boolish
to_boolish(value) ==
    IF value.py = "bool" THEN Value(value)
    ELSE IF value.py = "int" THEN Value(PyBool(value.n # 0))
    ELSE IF value.py = "float" THEN Value(PyBool(value.m # 0))
    ELSE LET s == Lower(Strip(PyStr(value))) IN
         IF s \in TrueWords THEN Value(PyBool(TRUE))
         ELSE IF s \in FalseWords THEN Value(PyBool(FALSE))
         ELSE IF IsIntLiteral(s) THEN Value(PyBool(IntOfStr(s) # 0))
         ELSE Value(PyBool(Len(s) > 0))

\* round(x) of a float: to the nearest integer, a tie to the even one
RoundHalfEven(x) ==
    LET a == Abs(x.m)
        q == a \div Pow10(x.e)
        r2 == 2 * (a % Pow10(x.e))
        up == r2 > Pow10(x.e) \/ (r2 = Pow10(x.e) /\ q % 2 = 1)
        n == IF up THEN q + 1 ELSE q
    IN  IF x.m < 0 THEN -n ELSE n

\* _to_int
to_int(value) ==
    IF value.py = "bool" THEN Value(PyInt(IF value.b THEN 1 ELSE 0))
    ELSE IF value.py = "int" THEN Value(PyInt(value.n))
    ELSE IF value.py = "float" THEN Value(PyInt(RoundHalfEven(value)))
    ELSE LET s == Strip(PyStr(value)) IN
         IF IsIntLiteral(s) THEN Value(PyInt(IntOfStr(s)))
         ELSE Raises("ValueError")

\* _to_float
to_float(value) ==
    IF value.py = "None" THEN Raises("TypeError")
    ELSE IF FloatDefined(value) THEN Value(FloatOf(value))
    ELSE Raises("ValueError")

\* _to_str
to_str(value) ==
    IF value = None THEN Value(Str(<<>>)) ELSE Value(Str(PyStr(value)))

\* get_bacnet_type, with get_object_def
get_bacnet_type(d, obj_type) ==
    LET def == DictGet(d, obj_type) IN
    IF def = None THEN None ELSE def.bacnet_type

\* (get_bacnet_type(obj_type) or "UNKNOWN").upper()
BType(d, obj_type) ==
    LET b == get_bacnet_type(d, obj_type) IN
    IF b = None \/ b.s = <<>> THEN <<"U", "N", "K", "N", "O", "W", "N">> ELSE Upper(b.s)

\* the value parse_present_value returns under the definitions d
ParsePresentValue(d, obj_type, raw_value) ==
    LET btype == BType(d, obj_type) IN
    IF btype = <<"B", "O", "O", "L", "E", "A", "N">> THEN to_boolish(raw_value)
    ELSE IF btype = <<"R", "E", "A", "L">> THEN to_float(raw_value)
    ELSE IF btype \in {<<"I", "N", "T", "E", "G", "E", "R">>, <<"U", "N", "S", "I", "G", "N", "E", "D">>, <<"E", "N", "U", "M", "E", "R", "A", "T", "E", "D">>}
    THEN to_int(raw_value)
    ELSE to_str(raw_value)

\* Python's value == True and value == False: a bool, the int or the float
\* of the same value
EqualsBool(value, b) ==
    \/ value.py = "bool" /\ value.b = b
    \/ value.py = "int" /\ value.n = (IF b THEN 1 ELSE 0)
    \/ value.py = "float" /\ value.e = 0 /\ value.m = (IF b THEN 1 ELSE 0)

\* the value encode_present_value_for_write returns
EncodePresentValue(obj_type, value) ==
    IF obj_type = "binaryOutput" /\ EqualsBool(value, TRUE)
    THEN Str(<<"a", "c", "t", "i", "v", "e">>)
    ELSE IF obj_type = "binaryOutput" /\ EqualsBool(value, FALSE)
    THEN Str(<<"i", "n", "a", "c", "t", "i", "v", "e">>)
    ELSE value

\* the object types and raw values handed to the two functions
CodecTypes ==
    {"binaryOutput", "binaryValue", "analogValue", "integerValue",
     "multiStateValue", "lifeSafetyPoint", "characterstringValue",
     "schedule", "calendar", "widget"}
EncodeTypes == {"binaryOutput", "binaryValue", "analogValue"}
CodecValues ==
    { None, PyBool(TRUE), PyBool(FALSE), PyInt(0), PyInt(1), PyInt(3),
      PyInt(-2), NormFloat(0, 0), NormFloat(1, 0), NormFloat(25, 1),
      NormFloat(35, 1), NormFloat(-26, 1),
      Str(<<"a", "c", "t", "i", "v", "e">>), Str(<<"i", "n", "a", "c", "t", "i", "v", "e">>), Str(<<" ", "I", "n", "a", "c", "t", "i", "v", "e", " ">>),
      Str(<<"O", "N">>), Str(<<" ", "C", "l", "e", "a", "r">>), Str(<<"r", "e", "s", "e", "t">>), Str(<<"S", "E", "T">>),
      Str(<<"3">>), Str(<<" ", "0", " ">>), Str(<<"-", "1">>), Str(<<"2", "3", ".", "5">>),
      Str(<<"a", "b", "c">>), Str(<<>>), Str(<<" ", " ">>) }

parse_present_value(t, obj_type, raw_value) ==
    /\ LET h == ParsePresentValue(defs, obj_type, raw_value) IN
       Atomic(t, "parse_present_value",
              [obj_type |-> obj_type, value |-> raw_value],
              IF h.ok THEN Returned("parse_present_value", h.v)
              ELSE Raised("parse_present_value", h.e))
    /\ UNCHANGED <<defs, device_cache, cacheLog>>

encode_present_value_for_write(t, obj_type, value) ==
    /\ Atomic(t, "encode_present_value_for_write",
              [obj_type |-> obj_type, value |-> value],
              Returned("encode_present_value_for_write",
                       EncodePresentValue(obj_type, value)))
    /\ UNCHANGED <<defs, device_cache, cacheLog>>

\* an entry of the schema file: a key and the JSON value under it, an
\* object given by its members or something else
Entry(k, v) == [key |-> k, isDict |-> TRUE, v |-> v]
NotAnObject(k) == [key |-> k, isDict |-> FALSE, v |-> None]

SchemaEntries ==
    { Entry("binaryOutput",
            [access |-> Str(<<" ", "r", "/", "w", " ">>), bacnet_type |-> Str(<<"b", "o", "o", "l", "e", "a", "n">>),
             datalayer_type |-> Str(<<"b", "o", "o", "l", "8">>),
             uninitialized_default |-> Str(<<"N", "u", "l", "l">>)]),
      Entry("binaryOutput",
            [access |-> Str(<<"R", "W">>), bacnet_type |-> Str(<<"B", "O", "O", "L", "E", "A", "N">>)]),
      Entry("analogValue",
            [access |-> Str(<<"R">>), bacnet_type |-> Str(<<"R", "e", "a", "l">>),
             uninitialized_default |-> PyInt(0)]),
      Entry("analogValue",
            [access |-> Str(<<"W">>), bacnet_type |-> Str(<<"R", "E", "A", "L">>)]),
      NotAnObject("analogValue"),
      Entry("multiStateValue", [bacnet_type |-> Str(<<"U", "N", "S", "I", "G", "N", "E", "D">>)]),
      Entry("multiStateValue",
            [access |-> None, bacnet_type |-> Str(<<"E", "N", "U", "M", "E", "R", "A", "T", "E", "D">>)]) }

\* the members of a JSON object, in the order of the file, under distinct
\* keys
EntryLists ==
    { s \in UNION { [1 .. n -> SchemaEntries] : n \in 0 .. MaxEntries } :
        \A i, j \in DOMAIN s : i # j => s[i].key # s[j].key }

\* the schema file: absent, not JSON, JSON with another root, or an object
SchemaFiles ==
    { [exists |-> FALSE, root |-> "object", entries |-> <<>>],
      [exists |-> TRUE, root |-> "invalid", entries |-> <<>>],
      [exists |-> TRUE, root |-> "array", entries |-> <<>>] }
    \cup
    { [exists |-> TRUE, root |-> "object", entries |-> s] : s \in EntryLists }

\* a schema with an object type for every semantic type
CodecSchema ==
    [exists |-> TRUE, root |-> "object",
     entries |->
        << Entry("binaryOutput",
                 [access |-> Str(<<"R", "/", "W">>),
                  bacnet_type |-> Str(<<"b", "o", "o", "l", "e", "a", "n">>)]),
           Entry("binaryValue",
                 [access |-> Str(<<"R", "/", "W">>),
                  bacnet_type |-> Str(<<"B", "O", "O", "L", "E", "A", "N">>)]),
           Entry("analogValue",
                 [access |-> Str(<<"R", "/", "W">>), bacnet_type |-> Str(<<"R", "E", "A", "L">>)]),
           Entry("integerValue", [bacnet_type |-> Str(<<"I", "N", "T", "E", "G", "E", "R">>)]),
           Entry("multiStateValue", [bacnet_type |-> Str(<<"U", "N", "S", "I", "G", "N", "E", "D">>)]),
           Entry("lifeSafetyPoint", [bacnet_type |-> Str(<<"E", "N", "U", "M", "E", "R", "A", "T", "E", "D">>)]),
           Entry("characterstringValue",
                 [bacnet_type |-> Str(<<"S", "T", "R", "I", "N", "G">>)]),
           Entry("schedule", [access |-> Str(<<"R">>)]),
           Entry("calendar", [bacnet_type |-> Str(<<"D", "A", "T", "E">>)]) >>]

\* the schema files of the caller of the present-value functions
CodecFiles ==
    { [exists |-> FALSE, root |-> "object", entries |-> <<>>], CodecSchema }

\* v.get(name, default)
Member(v, name, default) ==
    IF name \in DOMAIN v THEN v[name] ELSE default

\* str(v.get(name, default)).upper().strip()
NormMember(v, name, default) ==
    Str(Strip(Upper(PyStr(Member(v, name, Str(default))))))

\* access in {"R", "R/W"}
AccessValid(access) == access.s \in {<<"R">>, <<"R", "/", "W">>}

\* uninitialized_default with "none" and "null" turned to None
NormDefault(u) ==
    IF u.py = "str" /\ Lower(u.s) \in {<<"n", "o", "n", "e">>, <<"n", "u", "l", "l">>} THEN None
    ELSE u

\* the definition built from the JSON object v
NormEntry(v) ==
    [access |-> NormMember(v, "access", <<"R">>),
     bacnet_type |-> NormMember(v, "bacnet_type", <<"U", "N", "K", "N", "O", "W", "N">>),
     datalayer_type |-> NormMember(v, "datalayer_type", <<"S", "T", "R", "I", "N", "G">>),
     uninitialized_default |->
        NormDefault(Member(v, "uninitialized_default", None))]

\* the loop over data.items(): norm, or the ValueError of the first object
\* whose access is refused, with what norm held then
RECURSIVE NormLoop(_, _, _)
NormLoop(entries, k, norm) ==
    IF k > Len(entries) THEN [ok |-> TRUE, norm |-> norm]
    ELSE IF ~entries[k].isDict THEN NormLoop(entries, k + 1, norm)
    ELSE IF ~AccessValid(NormMember(entries[k].v, "access", <<"R">>))
    THEN [ok |-> FALSE, e |-> "ValueError", norm |-> norm]
    ELSE NormLoop(entries, k + 1,
                  DictPut(norm, entries[k].key, NormEntry(entries[k].v)))

\* load_object_type_definitions up to the replacement of the store
LoadOutcome(file) ==
    IF ~file.exists
    THEN [ok |-> FALSE, e |-> "FileNotFoundError", norm |-> EmptyDict]
    ELSE IF file.root = "invalid"
    THEN [ok |-> FALSE, e |-> "JSONDecodeError", norm |-> EmptyDict]
    ELSE IF file.root # "object"
    THEN [ok |-> FALSE, e |-> "ValueError", norm |-> EmptyDict]
    ELSE NormLoop(file.entries, 1, EmptyDict)

\* a store updated entry by entry while the file is read
StoreUpdatedInLoop(old, outcome) ==
    IF outcome.ok THEN outcome.norm
    ELSE [k \in DOMAIN old \cup DOMAIN outcome.norm |->
            IF k \in DOMAIN outcome.norm THEN outcome.norm[k] ELSE old[k]]

\* _OBJECT_TYPE_DEFS.clear(); _OBJECT_TYPE_DEFS.update(norm), reached only
\* when nothing was raised
StoreAfterLoad(old, outcome) == IF outcome.ok THEN outcome.norm ELSE old

load_object_type_definitions(t, file) ==
    /\ Atomic(t, "load_object_type_definitions", file,
              IF LoadOutcome(file).ok
              THEN Returned("load_object_type_definitions", None)
              ELSE Raised("load_object_type_definitions",
                          LoadOutcome(file).e))
    /\ defs' = StoreAfterLoad(defs, LoadOutcome(file))
    /\ UNCHANGED <<device_cache, cacheLog>>


(* ------------------------------- _Core --------------------------------- *)

\* the node before any write
\* no APDU has been handed to indication yet; base counts the calls of
\* super().indication for the last one
NoForward == [apdu |-> [py |-> "None"], base |-> 0]

NoNode == [state |-> "none"]

\* no call of discover
NoDisc == [state |-> "none"]
\* no call of whois; mark is the number of I-Am records that had been put in
\* a queue when the call of the thread began
NoWho == [state |-> "none", mark |-> 0]

Init ==
    /\ lock = NoThread
    /\ started = FALSE
    /\ app = 0
    /\ engine = "none"
    /\ deferredFns = <<>>
    /\ pc = [t \in Threads |-> "idle"]
    /\ op = [t \in Threads |-> "none"]
    /\ iocb = [t \in Threads |-> NoIocb]
    /\ res = [t \in Threads |-> NoResult]
    /\ bodyRuns = 0
    /\ launches = 0
    /\ submitted = [t \in Threads |-> 0]
    /\ args = [t \in Threads |-> None]
    /\ disc = [t \in Threads |-> NoDisc]
    /\ who = [t \in Threads |-> NoWho]
    /\ iamQueue = <<>>
    /\ enq = 0
    /\ defs = EmptyDict
    /\ device_cache = EmptyDict
    /\ cacheLog = <<>>
    /\ scan = [t \in Threads |-> NoScan]
    /\ orphan = [t \in Threads |-> NoDisc]
    /\ forwarded = NoForward
    /\ node = NoNode

\* the operations that begin with _Core.ensure_started(ini_path)
StartOps ==
    {"mstp_init_only", "iam", "read_property", "write_property", "whois",
     "discover"}
\* the operations that collect the answers of several requests
CollectOps == {"whois", "discover"}
\* the operations that submit a confirmed transaction
TxnOps == {"read_property", "write_property"}
\* the accessors built on _Core.app()
AppOps == {"get_app", "get_local_device", "get_port"}

\* thread t ends its call with outcome r
Finish(t, r) ==
    /\ pc' = [pc EXCEPT ![t] = "idle"]
    /\ res' = [res EXCEPT ![t] = r]

\* the engine still works on the closure d of a call of discover: a
\* continuation waits in deferred() or an IOCB with its callback is in flight
Live(d) ==
    /\ d.state \in {"open", "returned"}
    /\ d.deferredSend > 0 \/ d.pending # <<>>

\* a closure that ends with the call that built it
AbandonedDropped(d, old) == NoDisc

\* the closure the engine still refers to once its caller has gone on: that
\* of the call just left when it is live, the one left before otherwise
Abandoned(d, old) ==
    IF Live(d) THEN d ELSE IF Live(old) THEN old ELSE NoDisc

\* thread t begins a call of o
Begin(t, o) ==
    /\ op' = [op EXCEPT ![t] = o]
    /\ iocb' = [iocb EXCEPT ![t] = NoIocb]
    /\ submitted' = [submitted EXCEPT ![t] = 0]
    /\ args' = [args EXCEPT ![t] = None]
    /\ disc' = [disc EXCEPT ![t] = NoDisc]
    /\ who' = [who EXCEPT ![t] = [state |-> "none", mark |-> enq]]

\* ensure_started without the lock
LockIgnored == TRUE

\* `with cls._lock:` can be entered
LockFree == lock = NoThread

\* `if cls._started: return`
AlreadyStarted == started

\* load_bc_ini raises on an unreadable file and on a missing address or
\* interface
\* a load_bc_ini that does not look at the interface
LoadRaisesAddressOnly(cfg) ==
    \/ ~cfg.readable
    \/ cfg.address = None

LoadRaises(cfg) ==
    \/ ~cfg.readable
    \/ cfg.address = None
    \/ cfg.interface = None

\* ensure_started: the lock taken and _started tested
EnsureEnterBody(t, o) ==
    /\ pc[t] = "idle"
    /\ o \in StartOps
    /\ LockFree
    /\ Begin(t, o)
    /\ res' = [res EXCEPT ![t] = NoResult]
    /\ IF AlreadyStarted
       THEN /\ pc' = [pc EXCEPT ![t] = "body"]
            /\ lock' = lock
       ELSE /\ pc' = [pc EXCEPT ![t] = "es_init"]
            /\ lock' = t
    /\ UNCHANGED <<started, app, engine, deferredFns, bodyRuns, launches>>
    /\ UNCHANGED <<iamQueue, enq>>
    /\ UNCHANGED <<defs, device_cache, cacheLog, scan>>
    /\ forwarded' = forwarded

\* the closure of the thread's last discover is followed no further
EnsureEnter(t, o) ==
    /\ EnsureEnterBody(t, o)
    /\ orphan' = orphan
    /\ node' = node

\* the same step of a thread whose last discover may have left a live
\* closure, which the engine goes on working on; at most one such closure
\* is followed per thread
discover_again(t) ==
    /\ ~(Live(disc[t]) /\ Live(orphan[t]))
    /\ EnsureEnterBody(t, "discover")
    /\ orphan' = [orphan EXCEPT ![t] = Abandoned(disc[t], @)]
    /\ node' = node

\* ensure_started: the configuration loaded, the local device built and the
\* application constructed; an exception leaves the with block
EnsureInitBody(t, cfg, buildOk) ==
    /\ pc[t] = "es_init"
    /\ IF LoadRaises(cfg)
       THEN /\ Finish(t, Raised(op[t], "ConfigError"))
            /\ lock' = NoThread
            /\ app' = app
       ELSE IF ~buildOk
       THEN /\ Finish(t, Raised(op[t], "BuildError"))
            /\ lock' = NoThread
            /\ app' = app
       ELSE /\ app < MaxApps
            /\ app' = app + 1
            /\ pc' = [pc EXCEPT ![t] = "es_launch"]
            /\ UNCHANGED <<lock, res>>
    /\ UNCHANGED <<started, engine, deferredFns, op, iocb, bodyRuns,
                   launches, submitted>>
    /\ iamQueue' = IF LoadRaises(cfg) \/ ~buildOk THEN iamQueue ELSE <<>>
    /\ UNCHANGED <<disc, who, enq>>
    /\ UNCHANGED <<defs, device_cache, cacheLog, scan>>
    /\ UNCHANGED <<orphan, forwarded, node>>

EnsureInit(t, cfg, buildOk) ==
    /\ EnsureInitBody(t, cfg, buildOk)
    /\ args' = args

\* the same step of a caller whose ini file is kept with its arguments
start_init(t, cfg, buildOk) ==
    /\ EnsureInitBody(t, cfg, buildOk)
    /\ args' = [args EXCEPT ![t] = cfg]

\* ensure_started: enable_sleeping() and the start of the engine thread
EnsureLaunch(t, launchOk) ==
    /\ pc[t] = "es_launch"
    /\ IF launchOk
       THEN /\ engine' = "running"
            /\ launches' = launches + 1
            /\ pc' = [pc EXCEPT ![t] = "es_set"]
            /\ UNCHANGED <<lock, res>>
       ELSE /\ app < MaxApps
            /\ Finish(t, Raised(op[t], "ThreadError"))
            /\ lock' = NoThread
            /\ UNCHANGED <<engine, launches>>
    /\ UNCHANGED <<started, app, deferredFns, op, iocb, bodyRuns, submitted,
                   args>>
    /\ UNCHANGED <<disc, who, iamQueue, enq>>
    /\ UNCHANGED <<defs, device_cache, cacheLog, scan>>
    /\ UNCHANGED <<orphan, forwarded, node>>

\* ensure_started: _started set and the lock released
EnsureSet(t) ==
    /\ pc[t] = "es_set"
    /\ started' = TRUE
    /\ bodyRuns' = bodyRuns + 1
    /\ lock' = NoThread
    /\ pc' = [pc EXCEPT ![t] = "body"]
    /\ UNCHANGED <<app, engine, deferredFns, op, iocb, res, launches,
                   submitted, args>>
    /\ UNCHANGED <<disc, who, iamQueue, enq>>
    /\ UNCHANGED <<defs, device_cache, cacheLog, scan>>
    /\ UNCHANGED <<orphan, forwarded, node>>

\* _Core.app() raises when there is no application
AppRaises == app = 0

\* get_app, get_local_device, get_port
AppAccessor(t, o) ==
    /\ pc[t] = "idle"
    /\ o \in AppOps
    /\ Begin(t, o)
    /\ IF AppRaises
       THEN Finish(t, Raised(o, "NotStarted"))
       ELSE Finish(t, Returned(o, [r |-> "app", app |-> app]))
    /\ UNCHANGED <<lock, started, app, engine, deferredFns, bodyRuns,
                   launches>>
    /\ UNCHANGED <<iamQueue, enq>>
    /\ UNCHANGED <<defs, device_cache, cacheLog, scan>>
    /\ UNCHANGED <<orphan, forwarded, node>>

\* a stop() that restarts a stopped engine
StopCoreToggles ==
    IF engine = "running" THEN "stopped"
    ELSE IF engine = "stopped" THEN "running"
    ELSE engine

\* bacpypes.core.stop() as mstp_shutdown calls it
StopCore == IF engine = "running" THEN "stopped" ELSE engine

\* mstp_shutdown
mstp_shutdown(t) ==
    /\ pc[t] = "idle"
    /\ Begin(t, "mstp_shutdown")
    /\ engine' = StopCore
    /\ Finish(t, Returned("mstp_shutdown", None))
    /\ UNCHANGED <<lock, started, app, deferredFns, bodyRuns, launches>>
    /\ UNCHANGED <<iamQueue, enq>>
    /\ UNCHANGED <<defs, device_cache, cacheLog, scan>>
    /\ UNCHANGED <<orphan, forwarded, node>>

\* mstp_init_only after ensure_started, wait_online_timeout left at 0.0
mstp_init_only(t) ==
    /\ pc[t] = "body"
    /\ op[t] = "mstp_init_only"
    /\ Finish(t, Returned(op[t], [r |-> "init", initialized |-> TRUE,
                                  core_started |-> TRUE, online |-> FALSE]))
    /\ UNCHANGED <<lock, started, app, engine, deferredFns, op, iocb,
                   bodyRuns, launches, submitted, args>>
    /\ UNCHANGED <<disc, who, iamQueue, enq>>
    /\ UNCHANGED <<defs, device_cache, cacheLog, scan>>
    /\ UNCHANGED <<orphan, forwarded, node>>

\* iam after ensure_started
iam(t) ==
    /\ pc[t] = "body"
    /\ op[t] = "iam"
    /\ IF AppRaises
       THEN /\ Finish(t, Raised(op[t], "NotStarted"))
            /\ UNCHANGED deferredFns
       ELSE /\ Len(deferredFns) < MaxDeferred
            /\ deferredFns' = Append(deferredFns, "iam_send")
            /\ Finish(t, Returned(op[t], SentDict))
    /\ UNCHANGED <<lock, started, app, engine, op, iocb, bodyRuns, launches,
                   submitted, args>>
    /\ UNCHANGED <<disc, who, iamQueue, enq>>
    /\ UNCHANGED <<defs, device_cache, cacheLog, scan>>
    /\ UNCHANGED <<orphan, forwarded, node>>

(* ---------------------- confirmed transactions ------------------------- *)

IsPdu(r, name) == r # None /\ r.pdu = name

\* str(iocb.ioError)
StrOfError(err) == err.e

\* the test of the datatype left out
UnresolvedIgnored(dt) == FALSE

\* the datatype is not resolved: `if not datatype`
Unresolved(dt) == dt = NoType

\* the IOCB built and handed to app.request_io
Submit(t, req) ==
    /\ iocb' = [iocb EXCEPT ![t] = NewIocb(req)]
    /\ submitted' = [submitted EXCEPT ![t] = @ + 1]
    /\ pc' = [pc EXCEPT ![t] = "wait"]
    /\ res' = res

\* the call ends before any IOCB is built
EndEarly(t, r) ==
    /\ Finish(t, r)
    /\ UNCHANGED <<iocb, submitted>>
    /\ UNCHANGED <<defs, device_cache, cacheLog, scan>>
    /\ UNCHANGED <<orphan, forwarded, node>>

ReadPropertyRequest(inp) ==
    [service |-> "ReadProperty", pduDestination |-> inp.addr,
     target |-> inp.target, index |-> inp.index]

\* read_property from _Core.app() to app.request_io(iocb)
read_submit(t, inp) ==
    /\ pc[t] = "body"
    /\ op[t] = "read_property"
    /\ args' = [args EXCEPT ![t] = inp]
    /\ IF AppRaises
       THEN EndEarly(t, Raised(op[t], "NotStarted"))
       ELSE IF Unresolved(get_datatype(inp.target.ot, inp.target.prop))
       THEN EndEarly(t, Returned(op[t], ErrorDict("invalid property")))
       ELSE IF inp.addr = None
       THEN EndEarly(t, Raised(op[t], "TypeError"))
       ELSE Submit(t, ReadPropertyRequest(inp))
    /\ UNCHANGED <<lock, started, app, engine, deferredFns, op, bodyRuns,
                   launches>>
    /\ UNCHANGED <<disc, who, iamQueue, enq>>
    /\ UNCHANGED <<defs, device_cache, cacheLog, scan>>
    /\ UNCHANGED <<orphan, forwarded, node>>

\* a wait that gives up before the transaction is complete
WaitGivesUp(t) == TRUE

\* iocb.wait() returns
IocbDone(t) == iocb[t].state = "done"

\* a completed IOCB of another caller read in place of the caller's own
SharedIocb(t) ==
    IF \E u \in Threads \ {t} : iocb[u].state = "done"
    THEN iocb[CHOOSE u \in Threads \ {t} : iocb[u].state = "done"]
    ELSE iocb[t]

\* the IOCB whose ioError and ioResponse the call of t reads
OwnIocb(t) == iocb[t]

\* the class the payload of a ReadPropertyACK is cast out as
DecodeClass(apdu) ==
    LET dt == get_datatype(apdu.objectIdentifier[1], apdu.propertyIdentifier)
    IN  IF IsArray(dt) /\ apdu.propertyArrayIndex # None
        THEN IF apdu.propertyArrayIndex.n = 0 THEN "Unsigned"
             ELSE SubtypeOf(dt)
        ELSE dt

\* read_property after iocb.wait()
ReadResult(io) ==
    IF io.ioError # None
    THEN Returned("read_property", ErrorDict(StrOfError(io.ioError)))
    ELSE IF ~IsPdu(io.ioResponse, "ReadPropertyACK")
    THEN Returned("read_property", ErrorDict("no ack"))
    ELSE LET apdu == io.ioResponse IN
         IF Unresolved(get_datatype(apdu.objectIdentifier[1],
                                    apdu.propertyIdentifier))
         THEN Returned("read_property", ErrorDict("unknown datatype"))
         ELSE IF ~CastOutDefined(apdu.propertyValue, DecodeClass(apdu))
         THEN Raised("read_property", "DecodingError")
         ELSE Returned("read_property",
                       ValueDict(io.req.pduDestination, io.req.target.ot,
                                 io.req.target.inst, io.req.target.prop,
                                 io.req.index,
                                 JsonValue(apdu.propertyValue)))

read_return(t) ==
    /\ pc[t] = "wait"
    /\ op[t] = "read_property"
    /\ IocbDone(t)
    /\ Finish(t, ReadResult(OwnIocb(t)))
    /\ UNCHANGED <<lock, started, app, engine, deferredFns, op, iocb,
                   bodyRuns, launches, submitted, args>>
    /\ UNCHANGED <<disc, who, iamQueue, enq>>
    /\ UNCHANGED <<defs, device_cache, cacheLog, scan>>
    /\ UNCHANGED <<orphan, forwarded, node>>

\* the truth test `if x:` in place of `if x is not None:`
Truthy(x) == x # None /\ IntOf(x) # 0

\* `if index is not None:`, `if priority is not None:`
Given(x) == x # None

\* req.propertyArrayIndex = int(index), req.priority = int(priority): set
\* when the argument is given, left absent otherwise
Carried(x) == IF Given(x) THEN PyInt(IntOf(x)) ELSE None

WritePropertyRequest(inp, enc) ==
    [service |-> "WriteProperty", pduDestination |-> inp.addr,
     target |-> inp.target, propertyValue |-> enc,
     index |-> Carried(inp.index), priority |-> Carried(inp.priority)]

\* the exception of the parse not caught as a cast error
CastFailureIgnored(parsed) == FALSE

\* the parse ended in the except clause
CastFailed(parsed) == parsed.kind = "casterror"

\* write_property from _Core.app() to app.request_io(iocb); castInOk tells
\* whether propertyValue.cast_in accepts the encoded value
write_submit(t, inp, lib, castInOk) ==
    /\ pc[t] = "body"
    /\ op[t] = "write_property"
    /\ args' = [args EXCEPT ![t] = inp]
    /\ LET dt == get_datatype(inp.target.ot, inp.target.prop)
           parsed == ParseWriteValue(dt, inp.value, inp.index, lib)
       IN  IF AppRaises
           THEN EndEarly(t, Raised(op[t], "NotStarted"))
           ELSE IF Unresolved(dt)
           THEN EndEarly(t, Returned(op[t], ErrorDict("invalid property")))
           ELSE IF CastFailed(parsed)
           THEN EndEarly(t, Returned(op[t], ErrorDict("value cast error")))
           ELSE IF parsed.kind = "unsupported"
           THEN EndEarly(t, Returned(op[t],
                                     ErrorDict("unsupported array subtype")))
           ELSE IF inp.addr = None
           THEN EndEarly(t, Raised(op[t], "TypeError"))
           ELSE IF ~castInOk
           THEN EndEarly(t, Returned(op[t], ErrorDict("cast_in error")))
           ELSE Submit(t, WritePropertyRequest(inp, parsed.enc))
    /\ UNCHANGED <<lock, started, app, engine, deferredFns, op, bodyRuns,
                   launches>>
    /\ UNCHANGED <<disc, who, iamQueue, enq>>
    /\ UNCHANGED <<defs, device_cache, cacheLog, scan>>
    /\ UNCHANGED <<orphan, forwarded, node>>

\* the shape of the response tested before the error
WriteResultShapeFirst(io) ==
    IF IsPdu(io.ioResponse, "SimpleAckPDU")
    THEN Returned("write_property", AckDict)
    ELSE IF io.ioError # None
    THEN Returned("write_property", ErrorDict(StrOfError(io.ioError)))
    ELSE Returned("write_property", ErrorDict("no simple ack"))

\* write_property after iocb.wait()
WriteResult(io) ==
    IF io.ioError # None
    THEN Returned("write_property", ErrorDict(StrOfError(io.ioError)))
    ELSE IF ~IsPdu(io.ioResponse, "SimpleAckPDU")
    THEN Returned("write_property", ErrorDict("no simple ack"))
    ELSE Returned("write_property", AckDict)

write_return(t) ==
    /\ pc[t] = "wait"
    /\ op[t] = "write_property"
    /\ IocbDone(t)
    /\ Finish(t, WriteResult(OwnIocb(t)))
    /\ UNCHANGED <<lock, started, app, engine, deferredFns, op, iocb,
                   bodyRuns, launches, submitted, args>>
    /\ UNCHANGED <<disc, who, iamQueue, enq>>
    /\ UNCHANGED <<defs, device_cache, cacheLog, scan>>
    /\ UNCHANGED <<orphan, forwarded, node>>

(* ------------------------------ engine --------------------------------- *)

\* the engine completes the transaction of thread t
EngineComplete(t, err, rsp) ==
    /\ engine = "running"
    /\ iocb[t].state = "pending"
    /\ iocb' = [iocb EXCEPT ![t] = [@ EXCEPT !.state = "done",
                                             !.ioError = err,
                                             !.ioResponse = rsp]]
    /\ UNCHANGED <<lock, started, app, engine, deferredFns, pc, op, res,
                   bodyRuns, launches, submitted, args>>
    /\ UNCHANGED <<disc, who, iamQueue, enq>>
    /\ UNCHANGED <<defs, device_cache, cacheLog, scan>>
    /\ UNCHANGED <<orphan, forwarded, node>>

\* the engine runs the oldest deferred function
EngineRunDeferred ==
    /\ engine = "running"
    /\ deferredFns # <<>>
    /\ deferredFns' = Tail(deferredFns)
    /\ UNCHANGED <<lock, started, app, engine, pc, op, iocb, res, bodyRuns,
                   launches, submitted, args>>
    /\ UNCHANGED <<disc, who, iamQueue, enq>>
    /\ UNCHANGED <<defs, device_cache, cacheLog, scan>>
    /\ UNCHANGED <<orphan, forwarded, node>>

(* ------------------------------ discover ------------------------------- *)

\* the arguments of discover; the timeout in ticks
DiscoverInputs ==
    [addr_mac : {None, PyInt(5)}, device_id : {PyInt(599)},
     timeout : 0 .. MaxTimeout]

\* the closure of a call: results, index_queue, done and error_holder, the
\* number of _send_next continuations handed to deferred() and not yet run,
\* the indexes of the IOCBs in flight and the time spent in done.wait; reads
\* and replies record what was issued and answered
NewDisc(inp) ==
    [state |-> "open", inp |-> inp, results |-> <<>>, index_queue |-> <<0>>,
     done |-> FALSE, error_holder |-> <<>>, deferredSend |-> 1,
     pending |-> <<>>, elapsed |-> 0, woken |-> FALSE, reads |-> <<>>,
     replies |-> <<>>]

\* {"object_list": objs}
ObjectListDict(objs) == [r |-> "object_list", object_list |-> objs]
\* {"error": msg, "object_list": objs}
ErrorObjectListDict(msg, objs) ==
    [r |-> "error", error |-> msg, object_list |-> objs]

\* _json_safe: a value json.dumps refuses is replaced by its str()
JsonSafe(seq) ==
    [i \in DOMAIN seq |->
        IF seq[i].py # "bytes" THEN seq[i]
        ELSE [py |-> "str_of", of |-> seq[i]]]

\* list(range(1, int(count) + 1)) with one index too many
RangeOneMore(count) == [i \in 1 .. count + 1 |-> i]

\* list(range(1, int(count) + 1))
RangeFromOne(count) == [i \in 1 .. count |-> i]

\* index_queue.pop() in place of index_queue.pop(0)
PopLast(q) == [idx |-> q[Len(q)], rest |-> SubSeq(q, 1, Len(q) - 1)]

\* idx = index_queue.pop(0)
PopFirst(q) == [idx |-> Head(q), rest |-> Tail(q)]

\* discover from _Core.app() to done.wait: the closure built and _send_next
\* handed to deferred()
discover_kick(t, inp) ==
    /\ pc[t] = "body"
    /\ op[t] = "discover"
    /\ IF AppRaises
       THEN /\ Finish(t, Raised(op[t], "NotStarted"))
            /\ disc' = disc
       ELSE /\ disc' = [disc EXCEPT ![t] = NewDisc(inp)]
            /\ pc' = [pc EXCEPT ![t] = "d_wait"]
            /\ res' = res
    /\ UNCHANGED <<lock, started, app, engine, deferredFns, op, iocb,
                   bodyRuns, launches, submitted, args, who, iamQueue, enq>>
    /\ UNCHANGED <<defs, device_cache, cacheLog, scan>>
    /\ UNCHANGED <<orphan, forwarded, node>>

\* _send_next as the engine runs it: done set on an empty queue, the next
\* index popped and its read handed to request_io otherwise; Address(int(
\* addr_mac)) raises in the engine on a missing address
SendNext(d) ==
    IF d.index_queue = <<>>
    THEN [d EXCEPT !.done = TRUE, !.deferredSend = @ - 1]
    ELSE LET p == PopFirst(d.index_queue) IN
         IF d.inp.addr_mac = None
         THEN [d EXCEPT !.index_queue = p.rest, !.deferredSend = @ - 1]
         ELSE [d EXCEPT !.index_queue = p.rest, !.deferredSend = @ - 1,
                        !.pending = Append(@, PyInt(p.idx)),
                        !.reads = Append(@, p.idx)]

EngineSendNext(t) ==
    /\ engine = "running"
    /\ disc[t].state \in {"open", "returned"}
    /\ disc[t].deferredSend > 0
    /\ disc' = [disc EXCEPT ![t] = SendNext(disc[t])]
    /\ UNCHANGED <<lock, started, app, engine, deferredFns, pc, op, iocb,
                   res, bodyRuns, launches, submitted, args, who, iamQueue,
                   enq>>
    /\ UNCHANGED <<defs, device_cache, cacheLog, scan>>
    /\ UNCHANGED <<orphan, forwarded, node>>

\* an abort that records the error and goes on with the chain
AbortContinues(d, msg) ==
    [d EXCEPT !.error_holder = Append(@, msg), !.deferredSend = @ + 1]

\* error_holder.append(msg); done.set(); return
Abort(d, msg) == [d EXCEPT !.error_holder = Append(@, msg), !.done = TRUE]

\* an _on_reply that hands _send_next to deferred() twice
ChainTwice(d) == [d EXCEPT !.deferredSend = @ + 2]

\* the end of _on_reply: deferred(_send_next)
Chain(d) == [d EXCEPT !.deferredSend = @ + 1]

\* list(value) of a decoded array of object identifiers
ListOf(v) == [i \in DOMAIN v.l |-> [py |-> "tuple", t |-> v.l[i]]]

\* _on_reply
OnReply(d, err, rsp) ==
    IF err # None THEN Abort(d, StrOfError(err))
    ELSE IF ~IsPdu(rsp, "ReadPropertyACK") THEN Abort(d, "not an ack")
    ELSE LET dt == get_datatype(rsp.objectIdentifier[1],
                                rsp.propertyIdentifier)
             pv == rsp.propertyValue
         IN
         IF Unresolved(dt)
         THEN Abort(d, "unknown datatype for objectList")
         ELSE IF IsArray(dt) /\ rsp.propertyArrayIndex # None
         THEN IF rsp.propertyArrayIndex.n = 0
              THEN IF CastOutDefined(pv, "Unsigned")
                   THEN Chain([d EXCEPT !.index_queue =
                                           RangeFromOne(IntOf(CastOut(pv)))])
                   ELSE Abort(d, "DecodingError")
              ELSE IF CastOutDefined(pv, SubtypeOf(dt))
                   THEN Chain([d EXCEPT !.results = Append(@, CastOut(pv))])
                   ELSE Abort(d, "DecodingError")
         ELSE IF CastOutDefined(pv, dt)
              THEN Chain([d EXCEPT !.results = @ \o ListOf(CastOut(pv))])
              ELSE Abort(d, "DecodingError")

\* the objects a device may report
DeviceObjects == { <<"analogValue", 1>>, <<"binaryOutput", 2>> }

\* the acknowledgment of the read of index idx of the object list of dev
ObjectListACK(dev, idx, payload) ==
    ReadPropertyACK("device", dev.n, "objectList", idx, payload)

\* the payloads that answer the read of index idx
IndexPayloads(idx) ==
    IF idx.n = 0 THEN { Enc("Unsigned", PyInt(n)) : n \in 0 .. MaxCount }
    ELSE { Enc("ObjectIdentifier", [py |-> "tuple", t |-> o]) :
             o \in DeviceObjects }

\* ioError and ioResponse as the engine may complete the read of index idx
DiscoverReplies(dev, idx) ==
    { <<None, ObjectListACK(dev, idx, pl)>> : pl \in IndexPayloads(idx) }
    \cup
    { <<None, ObjectListACK(dev, idx, Enc("Real", NormFloat(215, 1)))>>,
      <<None, ObjectListACK(dev, None,
                            Enc("ArrayOfObjectIdentifier",
                                [py |-> "list",
                                 l |-> << <<"analogValue", 1>> >>]))>>,
      <<None, ObjectListACK(dev, None,
                            Enc("ArrayOfObjectIdentifier",
                                [py |-> "list",
                                 l |-> << <<"analogValue", 1>>,
                                          <<"binaryOutput", 2>> >>]))>>,
      <<None, ReadPropertyACK("widget", 1, "objectList", idx,
                              Enc("Unsigned", PyInt(1)))>>,
      <<None, OtherPDU>>,
      <<[py |-> "error", e |-> "timeout"], None>>,
      <<[py |-> "error", e |-> "timeout"],
        ObjectListACK(dev, idx, Enc("Unsigned", PyInt(1)))>> }

\* s without its k-th element
Without(s, k) == SubSeq(s, 1, k - 1) \o SubSeq(s, k + 1, Len(s))

\* the engine completes the k-th IOCB in flight and runs its callback
EngineReply(t, k, err, rsp) ==
    /\ engine = "running"
    /\ disc[t].state \in {"open", "returned"}
    /\ k \in DOMAIN disc[t].pending
    /\ disc' = [disc EXCEPT ![t] =
                  OnReply([@ EXCEPT !.pending = Without(@, k),
                                    !.replies = Append(@,
                                        [idx |-> disc[t].pending[k],
                                         err |-> err, rsp |-> rsp])],
                          err, rsp)]
    /\ UNCHANGED <<lock, started, app, engine, deferredFns, pc, op, iocb,
                   res, bodyRuns, launches, submitted, args, who, iamQueue,
                   enq>>
    /\ UNCHANGED <<defs, device_cache, cacheLog, scan>>
    /\ UNCHANGED <<orphan, forwarded, node>>

\* _send_next of a closure whose call has returned and whose thread has gone
\* on to another call
OrphanSendNext(t) ==
    /\ engine = "running"
    /\ orphan[t].state = "returned"
    /\ orphan[t].deferredSend > 0
    /\ orphan' = [orphan EXCEPT ![t] = SendNext(orphan[t])]
    /\ UNCHANGED <<lock, started, app, engine, deferredFns, pc, op, iocb,
                   res, bodyRuns, launches, submitted, args, disc, who,
                   iamQueue, enq>>
    /\ UNCHANGED <<defs, device_cache, cacheLog, scan, forwarded, node>>

\* _on_reply of such a closure
OrphanReply(t, k, err, rsp) ==
    /\ engine = "running"
    /\ orphan[t].state = "returned"
    /\ k \in DOMAIN orphan[t].pending
    /\ orphan' = [orphan EXCEPT ![t] =
                    OnReply([@ EXCEPT !.pending = Without(@, k),
                                      !.replies = Append(@,
                                          [idx |-> orphan[t].pending[k],
                                           err |-> err, rsp |-> rsp])],
                            err, rsp)]
    /\ UNCHANGED <<lock, started, app, engine, deferredFns, pc, op, iocb,
                   res, bodyRuns, launches, submitted, args, disc, who,
                   iamQueue, enq>>
    /\ UNCHANGED <<defs, device_cache, cacheLog, scan, forwarded, node>>

\* a done.wait with no timeout
WaitNeverExpires(d) == FALSE

\* the timeout of done.wait(timeout=float(timeout)) has elapsed
WaitExpired(d) == d.elapsed >= d.inp.timeout

\* the values done.wait may return: True when the event is set in time, False
\* when the timeout elapsed first, either when the event was set while the
\* waiter timed out
WaitOutcomes(d) ==
    { w \in BOOLEAN : (w => d.done) /\ (~w => WaitExpired(d)) }

\* discover after done.wait returned woken
DiscoverResult(d, woken) ==
    IF ~woken
    THEN Returned("discover",
                  ErrorObjectListDict("discover timeout", JsonSafe(d.results)))
    ELSE IF d.error_holder # <<>>
    THEN Returned("discover",
                  ErrorObjectListDict(d.error_holder[1], JsonSafe(d.results)))
    ELSE Returned("discover", ObjectListDict(JsonSafe(d.results)))

discover_return(t, woken) ==
    /\ pc[t] = "d_wait"
    /\ woken \in WaitOutcomes(disc[t])
    /\ Finish(t, DiscoverResult(disc[t], woken))
    /\ disc' = [disc EXCEPT ![t].state = "returned", ![t].woken = woken]
    /\ UNCHANGED <<lock, started, app, engine, deferredFns, op, iocb,
                   bodyRuns, launches, submitted, args, who, iamQueue, enq>>
    /\ UNCHANGED <<defs, device_cache, cacheLog, scan>>
    /\ UNCHANGED <<orphan, forwarded, node>>

(* ------------------------------- whois --------------------------------- *)

\* the arguments of whois; the timeout in ticks
WhoisInputs ==
    [timeout : 0 .. MaxTimeout, dest : {None}, low_limit : {None},
     high_limit : {None}]

\* the calls with a destination and limits: no destination, the empty
\* string, the station "5" and a string Address() rejects; a low limit of 0
WhoisRequests ==
    [timeout : {0, 1},
     dest : {None, Str(<<>>), Str(<<"5">>), Str(<<"x">>)},
     low_limit : {None, PyInt(0), PyInt(10)},
     high_limit : {None, PyInt(20)}]

\* Address(dest) of a string: the station whose number the digits are;
\* ValueError for a string of no address format
Address(dest) ==
    IF dest.s # <<>> /\ AllDigits(dest.s) /\ DigitsVal(dest.s) < 256
    THEN [ok |-> TRUE,
          addr |-> [addrType |-> "localStation",
                    addrAddr |-> DigitsVal(dest.s)]]
    ELSE [ok |-> FALSE]

\* GlobalBroadcast()
GlobalBroadcast == [addrType |-> "globalBroadcast"]

\* a request that is broadcast whatever the destination
DestIgnored(dest) == FALSE

\* `if dest:`
DestGiven(dest) == dest # None /\ dest.s # <<>>

\* the WhoIsRequest built from the arguments: the destination, and the
\* limits set only when both are not None
WhoIsRequest(inp) ==
    [service |-> "WhoIs",
     pduDestination |->
        IF DestGiven(inp.dest) THEN Address(inp.dest).addr
        ELSE GlobalBroadcast,
     deviceInstanceRangeLowLimit |->
        IF Given(inp.low_limit) /\ Given(inp.high_limit)
        THEN PyInt(IntOf(inp.low_limit)) ELSE None,
     deviceInstanceRangeHighLimit |->
        IF Given(inp.low_limit) /\ Given(inp.high_limit)
        THEN PyInt(IntOf(inp.high_limit)) ELSE None]

\* the I-Am requests the network may deliver
IAmApdus ==
    [dev_type : {"device", "analogValue"}, dev_inst : {10, 20},
     source_mac : {1, 2}, wellFormed : BOOLEAN]

\* _MSTPApp.indication puts a record for a well-formed I-Am of a device
Queued(apdu) == apdu.dev_type = "device" /\ apdu.wellFormed

\* the record put in the queue; seq tells the records apart
IAmRecord(apdu, n) ==
    [device_instance |-> apdu.dev_inst, source_mac |-> apdu.source_mac,
     seq |-> n]

\* the capture in _MSTPApp.indication run by the engine: the record is put
\* when put holds
Capture(apdu, put) ==
    /\ engine = "running"
    /\ app # 0
    /\ enq < MaxIAm
    /\ IF put
       THEN /\ iamQueue' = Append(iamQueue, IAmRecord(apdu, enq + 1))
            /\ enq' = enq + 1
       ELSE UNCHANGED <<iamQueue, enq>>
    /\ UNCHANGED <<lock, started, app, engine, deferredFns, pc, op, iocb,
                   res, bodyRuns, launches, submitted, args, disc, who>>
    /\ UNCHANGED <<defs, device_cache, cacheLog, scan>>
    /\ UNCHANGED <<orphan, node>>

\* _MSTPApp.indication on an I-Am whose identifier unpacks, as far as the
\* queue is concerned
Indication(apdu) ==
    /\ Capture(apdu, Queued(apdu))
    /\ forwarded' = forwarded

\* the APDUs the engine may hand to indication: kind is the class, idOk
\* whether iAmDeviceIdentifier unpacks into a pair, wellFormed whether every
\* field converts
Apdus ==
    { a \in [kind : {"IAmRequest", "WhoIsRequest"},
             dev_type : {"device", "analogValue"}, dev_inst : {10, 20},
             source_mac : {1}, idOk : BOOLEAN, wellFormed : BOOLEAN] :
        a.wellFormed => a.idOk }

\* `if dev_type != "device": return` is reached and taken
ReturnsEarly(apdu) ==
    apdu.kind = "IAmRequest" /\ apdu.idOk /\ apdu.dev_type # "device"

\* self._iam_queue.put(result) is reached
Captured(apdu) ==
    apdu.kind = "IAmRequest" /\ apdu.idOk /\ Queued(apdu)

\* _MSTPApp.indication on any APDU: the capture, then super().indication
\* unless the handler has returned
indication(apdu) ==
    /\ Capture(apdu, Captured(apdu))
    /\ forwarded' = [apdu |-> apdu,
                     base |-> IF ReturnsEarly(apdu) THEN 0 ELSE 1]

\* the locals of a call: seen in insertion order, the time since `end` was
\* computed and the time the current get has blocked; drained counts what
\* the drain loop discarded and dequeued records what the collection loop
\* took from the queue; req is the request built and sent counts the times
\* _send was handed to deferred(); s0 is the number of records put before
\* the drain loop ended and over tells whether another call was in its body
\* at some time during this one
NewWho(inp, mark) ==
    [state |-> "open", mark |-> mark, inp |-> inp, seen |-> <<>>,
     elapsed |-> 0, block |-> 0, drained |-> 0, dequeued |-> <<>>,
     req |-> None, sent |-> 0, s0 |-> 0, over |-> FALSE]

\* another thread than t is in the body of whois
OthersOpen(t) == \E u \in Threads \ {t} : who[u].state = "open"

\* the queue after get has taken its head without removing it
QueuePeek(q) == q

\* the queue after get or get_nowait has taken its head
QueueGet(q) == Tail(q)

\* whois: app = _Core.app()
whois_enter(t, inp) ==
    /\ pc[t] = "body"
    /\ op[t] = "whois"
    /\ IF AppRaises
       THEN /\ Finish(t, Raised(op[t], "NotStarted"))
            /\ who' = who
       ELSE /\ who' = [u \in Threads |->
                         IF u = t
                         THEN [NewWho(inp, who[t].mark) EXCEPT
                                 !.over = OthersOpen(t)]
                         ELSE IF who[u].state = "open"
                         THEN [who[u] EXCEPT !.over = TRUE]
                         ELSE who[u]]
            /\ pc' = [pc EXCEPT ![t] = "w_drain"]
            /\ res' = res
    /\ UNCHANGED <<lock, started, app, engine, deferredFns, op, iocb,
                   bodyRuns, launches, submitted, args, disc, iamQueue, enq>>
    /\ UNCHANGED <<defs, device_cache, cacheLog, scan>>
    /\ UNCHANGED <<orphan, forwarded, node>>

\* the drain loop left without a look at the queue
DrainSkipped(q) == TRUE

\* get_nowait raises Empty
DrainDone(q) == q = <<>>

\* whois: one get_nowait of the drain loop; on Empty the request is built
\* (Address(dest) may raise), _send handed to deferred() and `end` computed
whois_drain(t) ==
    /\ pc[t] = "w_drain"
    /\ IF ~DrainDone(iamQueue)
       THEN /\ iamQueue' = Tail(iamQueue)
            /\ who' = [who EXCEPT ![t].drained = @ + 1]
            /\ UNCHANGED <<deferredFns, pc, res>>
       ELSE IF DestGiven(who[t].inp.dest) /\ ~Address(who[t].inp.dest).ok
       THEN /\ Finish(t, Raised(op[t], "ValueError"))
            /\ who' = [who EXCEPT ![t].state = "raised"]
            /\ UNCHANGED <<iamQueue, deferredFns>>
       ELSE /\ Len(deferredFns) < MaxDeferred
            /\ deferredFns' = Append(deferredFns, "whois_send")
            /\ who' = [who EXCEPT ![t].req = WhoIsRequest(who[t].inp),
                                  ![t].sent = @ + 1,
                                  ![t].s0 = enq]
            /\ pc' = [pc EXCEPT ![t] = "w_loop"]
            /\ UNCHANGED <<iamQueue, res>>
    /\ UNCHANGED <<lock, started, app, engine, op, iocb, bodyRuns,
                   launches, submitted, args, disc, enq>>
    /\ UNCHANGED <<defs, device_cache, cacheLog, scan>>
    /\ UNCHANGED <<orphan, forwarded, node>>

\* `while time.time() < end` is false
WhoisExpired(w) == w.elapsed >= w.inp.timeout

\* {"r": "devices"}: list(seen.values())
DevicesList(seen) == [r |-> "devices", l |-> seen]

\* whois: the test of the collection loop
whois_test(t) ==
    /\ pc[t] = "w_loop"
    /\ IF WhoisExpired(who[t])
       THEN /\ Finish(t, Returned(op[t], DevicesList(who[t].seen)))
            /\ who' = [who EXCEPT ![t].state = "returned"]
       ELSE /\ pc' = [pc EXCEPT ![t] = "w_get"]
            /\ who' = [who EXCEPT ![t].block = 0]
            /\ res' = res
    /\ UNCHANGED <<lock, started, app, engine, deferredFns, op, iocb,
                   bodyRuns, launches, submitted, args, disc, iamQueue, enq>>
    /\ UNCHANGED <<defs, device_cache, cacheLog, scan>>
    /\ UNCHANGED <<orphan, forwarded, node>>

\* the position of the key of d in the dict, 0 when absent
KeyIndex(seen, d) ==
    IF \E i \in DOMAIN seen : seen[i].device_instance = d.device_instance
    THEN CHOOSE i \in DOMAIN seen :
            seen[i].device_instance = d.device_instance
    ELSE 0

\* seen.setdefault(d["device_instance"], d)
DictSetDefault(seen, d) ==
    IF KeyIndex(seen, d) # 0 THEN seen ELSE Append(seen, d)

\* seen[d["device_instance"]] = d
DictSet(seen, d) ==
    IF KeyIndex(seen, d) # 0 THEN [seen EXCEPT ![KeyIndex(seen, d)] = d]
    ELSE Append(seen, d)

\* a get that blocks with no timeout
GetBlocksForever(w) == FALSE

\* app._iam_queue.get(timeout=0.1) raises Empty
GetTimedOut(w) == w.block >= PollTicks

\* whois: d = app._iam_queue.get(timeout=0.1)
whois_get(t) ==
    /\ pc[t] = "w_get"
    /\ IF iamQueue # <<>>
       THEN /\ iamQueue' = QueueGet(iamQueue)
            /\ who' = [who EXCEPT
                         ![t].seen = DictSet(@, Head(iamQueue)),
                         ![t].dequeued = Append(@, Head(iamQueue))]
       ELSE /\ GetTimedOut(who[t])
            /\ UNCHANGED <<iamQueue, who>>
    /\ pc' = [pc EXCEPT ![t] = "w_loop"]
    /\ UNCHANGED <<lock, started, app, engine, deferredFns, op, iocb, res,
                   bodyRuns, launches, submitted, args, disc, enq>>
    /\ UNCHANGED <<defs, device_cache, cacheLog, scan>>
    /\ UNCHANGED <<orphan, forwarded, node>>

(* -------------------------------- time --------------------------------- *)

\* thread t is blocked in a wait that a timeout bounds
TimedWait(t) ==
    \/ /\ pc[t] = "d_wait"
       /\ ~disc[t].done
       /\ ~WaitExpired(disc[t])
    \/ /\ pc[t] = "w_get"
       /\ iamQueue = <<>>
       /\ ~GetTimedOut(who[t])

\* the longest time the model lets a call wait
TickCap == MaxTimeout + PollTicks + 1

\* one tick passes: every thread at work is blocked, one of them in a timed
\* wait
Tick ==
    /\ \E t \in Threads : TimedWait(t)
    /\ \A t \in Threads : pc[t] \in {"idle", "wait"} \/ TimedWait(t)
    /\ \A t \in Threads :
          /\ pc[t] = "d_wait" => disc[t].elapsed < TickCap
          /\ pc[t] = "w_get" => who[t].elapsed < TickCap
    /\ disc' = [t \in Threads |->
                  IF pc[t] = "d_wait"
                  THEN [disc[t] EXCEPT !.elapsed = @ + 1] ELSE disc[t]]
    /\ who' = [t \in Threads |->
                 IF pc[t] = "w_get"
                 THEN [who[t] EXCEPT !.elapsed = @ + 1, !.block = @ + 1]
                 ELSE who[t]]
    /\ UNCHANGED <<lock, started, app, engine, deferredFns, pc, op, iocb,
                   res, bodyRuns, launches, submitted, args, iamQueue, enq>>
    /\ UNCHANGED <<defs, device_cache, cacheLog, scan>>
    /\ UNCHANGED <<orphan, forwarded, node>>

(* --------------------------- specifications ---------------------------- *)

\* the steps of caller thread t under input profile P
ThreadStep(t, P) ==
    \/ \E o \in StartOps \ CollectOps : EnsureEnter(t, o)
    \/ /\ pc[t] = "es_init"
       /\ \E cfg \in Configs, buildOk \in BOOLEAN : EnsureInit(t, cfg, buildOk)
    \/ \E launchOk \in BOOLEAN : EnsureLaunch(t, launchOk)
    \/ EnsureSet(t)
    \/ \E o \in AccessorInputs(P) : AppAccessor(t, o)
    \/ mstp_shutdown(t)
    \/ mstp_init_only(t)
    \/ iam(t)
    \/ /\ pc[t] = "body" /\ op[t] = "read_property"
       /\ \E inp \in ReadInputs(P) : read_submit(t, inp)
    \/ read_return(t)
    \/ /\ pc[t] = "body" /\ op[t] = "write_property"
       /\ \E inp \in WriteInputs(P), lib \in BOOLEAN, castInOk \in BOOLEAN :
             write_submit(t, inp, lib, castInOk)
    \/ write_return(t)

EngineStep(t, P) ==
    \E err \in IoErrors(P), rsp \in IoResponses(P, iocb[t].req) :
        EngineComplete(t, err, rsp)

\* caller threads running concurrently with the engine
Next ==
    \/ \E t \in Threads : ThreadStep(t, "small")
    \/ \E t \in Threads : iocb[t].state = "pending" /\ EngineStep(t, "small")
    \/ EngineRunDeferred

Spec == Init /\ [][Next]_vars

\* one caller thread and the engine, every input of the full profile
NextCalls ==
    \/ ThreadStep(1, "full")
    \/ iocb[1].state = "pending" /\ EngineStep(1, "full")
    \/ EngineRunDeferred

SpecCalls == Init /\ [][NextCalls]_vars

\* the confirmed transactions alone: callers of read_property and
\* write_property, mstp_shutdown and the engine
NextTxn ==
    \/ \E t \in Threads, o \in TxnOps : EnsureEnter(t, o)
    \/ \E t \in Threads :
          /\ pc[t] = "es_init"
          /\ \E cfg \in Configs, buildOk \in BOOLEAN :
                EnsureInit(t, cfg, buildOk)
    \/ \E t \in Threads, launchOk \in BOOLEAN : EnsureLaunch(t, launchOk)
    \/ \E t \in Threads : EnsureSet(t)
    \/ \E t \in Threads : mstp_shutdown(t)
    \/ \E t \in Threads :
          /\ pc[t] = "body" /\ op[t] = "read_property"
          /\ \E inp \in ReadInputs("txn") : read_submit(t, inp)
    \/ \E t \in Threads : read_return(t)
    \/ \E t \in Threads :
          /\ pc[t] = "body" /\ op[t] = "write_property"
          /\ \E inp \in WriteInputs("txn"), lib \in BOOLEAN,
                castInOk \in BOOLEAN : write_submit(t, inp, lib, castInOk)
    \/ \E t \in Threads : write_return(t)
    \/ \E t \in Threads : iocb[t].state = "pending" /\ EngineStep(t, "txn")

\* the engine thread, while it runs, completes every pending transaction, and
\* a caller woken by the completion of its IOCB returns
FairSpec ==
    /\ Init
    /\ [][NextTxn]_vars
    /\ \A t \in Threads :
          /\ WF_vars(iocb[t].state = "pending" /\ EngineStep(t, "txn"))
          /\ WF_vars(read_return(t))
          /\ WF_vars(write_return(t))

\* one caller of discover, the engine and the clock
NextDiscover ==
    \/ EnsureEnter(1, "discover")
    \/ /\ pc[1] = "es_init"
       /\ \E cfg \in Configs, buildOk \in BOOLEAN : EnsureInit(1, cfg, buildOk)
    \/ \E launchOk \in BOOLEAN : EnsureLaunch(1, launchOk)
    \/ EnsureSet(1)
    \/ \E inp \in DiscoverInputs : discover_kick(1, inp)
    \/ EngineSendNext(1)
    \/ /\ disc[1].state \in {"open", "returned"}
       /\ \E k \in DOMAIN disc[1].pending :
             \E rp \in DiscoverReplies(disc[1].inp.device_id,
                                        disc[1].pending[k]) :
                EngineReply(1, k, rp[1], rp[2])
    \/ Tick
    \/ \E woken \in BOOLEAN : discover_return(1, woken)

SpecDiscover == Init /\ [][NextDiscover]_vars

\* the engine thread, while it runs, runs every deferred function and
\* completes every IOCB; a caller whose wait is over returns
FairDiscover ==
    /\ SpecDiscover
    /\ WF_vars(EngineSendNext(1))
    /\ WF_vars(/\ disc[1].state \in {"open", "returned"}
               /\ \E k \in DOMAIN disc[1].pending :
                     \E rp \in DiscoverReplies(disc[1].inp.device_id,
                                                disc[1].pending[k]) :
                        EngineReply(1, k, rp[1], rp[2]))
    /\ WF_vars(Tick)
    /\ WF_vars(\E woken \in BOOLEAN : discover_return(1, woken))

\* the calls of discover that leave a closure behind: a wait of no tick or
\* one
ChainInputs ==
    [addr_mac : {None, PyInt(5)}, device_id : {PyInt(599)}, timeout : {0, 1}]

\* the replies of a device that answers each read or lets it time out
ChainReplies(dev, idx) ==
    { <<None, ObjectListACK(dev, idx, pl)>> : pl \in IndexPayloads(idx) }
    \cup { <<[py |-> "error", e |-> "timeout"], None>> }

\* the engine completes an IOCB of the closure of the current call
ChainReply ==
    /\ disc[1].state \in {"open", "returned"}
    /\ \E k \in DOMAIN disc[1].pending :
          \E rp \in ChainReplies(disc[1].inp.device_id, disc[1].pending[k]) :
             EngineReply(1, k, rp[1], rp[2])

\* the engine completes an IOCB of the closure left behind
ChainOrphanReply ==
    /\ orphan[1].state = "returned"
    /\ \E k \in DOMAIN orphan[1].pending :
          \E rp \in ChainReplies(orphan[1].inp.device_id,
                                  orphan[1].pending[k]) :
             OrphanReply(1, k, rp[1], rp[2])

\* mstp_shutdown called by a thread between two calls of discover: stop()
\* ends the engine's loop and touches no closure
shutdown_between(t) ==
    /\ pc[t] = "idle"
    /\ op[t] = "discover"
    /\ engine = "running"
    /\ op' = [op EXCEPT ![t] = "mstp_shutdown"]
    /\ engine' = StopCore
    /\ Finish(t, Returned("mstp_shutdown", None))
    /\ UNCHANGED <<lock, started, app, deferredFns, bodyRuns, launches,
                   iocb, submitted, args, disc, who, iamQueue, enq>>
    /\ UNCHANGED <<defs, device_cache, cacheLog, scan>>
    /\ UNCHANGED <<orphan, forwarded, node>>

\* one thread calling discover again and again on a started session, the
\* engine working on the closure of the current call and on the one left
\* behind by the call before
NextChain ==
    \/ discover_again(1)
    \/ /\ pc[1] = "es_init"
       /\ EnsureInit(1, ValidConfig, TRUE)
    \/ EnsureLaunch(1, TRUE)
    \/ EnsureSet(1)
    \/ \E inp \in ChainInputs : discover_kick(1, inp)
    \/ EngineSendNext(1)
    \/ ChainReply
    \/ OrphanSendNext(1)
    \/ ChainOrphanReply
    \/ Tick
    \/ \E woken \in BOOLEAN : discover_return(1, woken)
    \/ shutdown_between(1)

SpecChain == Init /\ [][NextChain]_vars

\* the engine runs every deferred function and completes every IOCB
FairChain ==
    /\ SpecChain
    /\ WF_vars(EngineSendNext(1))
    /\ WF_vars(ChainReply)
    /\ WF_vars(OrphanSendNext(1))
    /\ WF_vars(ChainOrphanReply)
    /\ WF_vars(Tick)
    /\ WF_vars(\E woken \in BOOLEAN : discover_return(1, woken))

(* --------------------------- run_device_scan --------------------------- *)

\* the I-Am requests delivered during a scan
ScanApdus ==
    { [dev_type |-> "device", dev_inst |-> 10, source_mac |-> 1,
       wellFormed |-> TRUE],
      [dev_type |-> "device", dev_inst |-> 20, source_mac |-> 2,
       wellFormed |-> TRUE],
      [dev_type |-> "device", dev_inst |-> 10, source_mac |-> 2,
       wellFormed |-> TRUE] }

\* the thread started by __on_write enters run_device_scan
scan_start(t) ==
    /\ pc[t] = "idle"
    /\ scan[t].state \in {"none", "done", "failed"}
    /\ scan' = [scan EXCEPT ![t] = [state |-> "call"]]
    /\ op' = [op EXCEPT ![t] = "run_device_scan"]
    /\ UNCHANGED <<lock, started, app, engine, deferredFns, pc, iocb, res,
                   bodyRuns, launches, submitted, args, disc, who, iamQueue,
                   enq, defs, device_cache, cacheLog>>
    /\ UNCHANGED <<orphan, forwarded, node>>

\* devices = whois(ACTIVE_INI_PATH, timeout=10.0): the list returned, or the
\* exception of whois ending the thread
scan_whois_returned(t) ==
    /\ scan[t].state = "call"
    /\ op[t] = "whois"
    /\ pc[t] = "idle"
    /\ scan' = [scan EXCEPT ![t] =
                  IF res[t].kind = "raised" THEN [state |-> "failed"]
                  ELSE [state |-> "loop", devices |-> res[t].data.l,
                        k |-> 1]]
    /\ UNCHANGED <<lock, started, app, engine, deferredFns, pc, op, iocb,
                   res, bodyRuns, launches, submitted, args, disc, who,
                   iamQueue, enq, defs, device_cache, cacheLog>>
    /\ UNCHANGED <<orphan, forwarded, node>>

\* a loop that provides the nodes of a device without caching it
ScanCacheSkipped(cache, device) == cache

\* cache_device(device) in the loop of run_device_scan
ScanCache(cache, device) == CacheDevice(cache, device)

\* one iteration of `for device in devices`: the device cached, then its
\* nodes provided, which may raise and end the thread; the loop ends after
\* the last device
scan_device(t, provideOk) ==
    /\ scan[t].state = "loop"
    /\ IF scan[t].k > Len(scan[t].devices)
       THEN /\ scan' = [scan EXCEPT ![t].state = "done"]
            /\ device_cache' = device_cache
       ELSE /\ device_cache' = ScanCache(device_cache,
                                         scan[t].devices[scan[t].k])
            /\ scan' = [scan EXCEPT ![t] =
                          IF provideOk THEN [@ EXCEPT !.k = @ + 1]
                          ELSE [@ EXCEPT !.state = "failed"]]
    /\ UNCHANGED <<lock, started, app, engine, deferredFns, pc, op, iocb,
                   res, bodyRuns, launches, submitted, args, disc, who,
                   iamQueue, enq, defs, cacheLog>>
    /\ UNCHANGED <<orphan, forwarded, node>>

\* one scanning thread, the engine with the I-Am indications, and the clock
NextScan ==
    \/ scan_start(1)
    \/ op[1] = "run_device_scan" /\ EnsureEnter(1, "whois")
    \/ /\ pc[1] = "es_init"
       /\ \E cfg \in Configs, buildOk \in BOOLEAN : EnsureInit(1, cfg, buildOk)
    \/ \E launchOk \in BOOLEAN : EnsureLaunch(1, launchOk)
    \/ EnsureSet(1)
    \/ \E inp \in WhoisInputs : whois_enter(1, inp)
    \/ whois_drain(1)
    \/ whois_test(1)
    \/ whois_get(1)
    \/ \E apdu \in ScanApdus : Indication(apdu)
    \/ EngineRunDeferred
    \/ Tick
    \/ scan_whois_returned(1)
    \/ \E provideOk \in BOOLEAN : scan_device(1, provideOk)

SpecScan == Init /\ [][NextScan]_vars

\* the callers of the device cache
NextCache ==
    \/ \E t \in Threads, device \in CacheRecords : cache_device(t, device)
    \/ \E t \in Threads : clear_device_cache(t)
    \/ \E t \in Threads, device_id \in CacheKeys :
          get_device_by_id(t, device_id)
    \/ \E t \in Threads, device_id \in CacheKeys :
          get_mac_for_device(t, device_id)

SpecCache == Init /\ [][NextCache]_vars

\* the callers that start and stop the session, each with its own ini file
NextStart ==
    \/ \E t \in Threads : EnsureEnter(t, "mstp_init_only")
    \/ \E t \in Threads :
          /\ pc[t] = "es_init"
          /\ \E cfg \in Configs, buildOk \in BOOLEAN :
                start_init(t, cfg, buildOk)
    \/ \E t \in Threads, launchOk \in BOOLEAN : EnsureLaunch(t, launchOk)
    \/ \E t \in Threads : EnsureSet(t)
    \/ \E t \in Threads : mstp_init_only(t)
    \/ \E t \in Threads : mstp_shutdown(t)

SpecStart == Init /\ [][NextStart]_vars

\* one caller of the schema loader and of the present-value functions
NextCodec ==
    \/ \E file \in CodecFiles : load_object_type_definitions(1, file)
    \/ \E obj_type \in CodecTypes, raw_value \in CodecValues :
          parse_present_value(1, obj_type, raw_value)
    \/ \E obj_type \in EncodeTypes, value \in CodecValues :
          encode_present_value_for_write(1, obj_type, value)

SpecCodec == Init /\ [][NextCodec]_vars

\* one caller of the schema loader
NextSchema == \E file \in SchemaFiles : load_object_type_definitions(1, file)

SpecSchema == Init /\ [][NextSchema]_vars

\* one caller of whois, the engine with the I-Am indications, and the clock
NextWhois ==
    \/ EnsureEnter(1, "whois")
    \/ /\ pc[1] = "es_init"
       /\ \E cfg \in Configs, buildOk \in BOOLEAN : EnsureInit(1, cfg, buildOk)
    \/ \E launchOk \in BOOLEAN : EnsureLaunch(1, launchOk)
    \/ EnsureSet(1)
    \/ \E inp \in WhoisInputs : whois_enter(1, inp)
    \/ whois_drain(1)
    \/ whois_test(1)
    \/ whois_get(1)
    \/ \E apdu \in IAmApdus : Indication(apdu)
    \/ EngineRunDeferred
    \/ Tick

SpecWhois == Init /\ [][NextWhois]_vars

\* the same caller when every I-Am delivered is the one of a single device
NextWhoisTimed ==
    \/ EnsureEnter(1, "whois")
    \/ /\ pc[1] = "es_init"
       /\ \E cfg \in Configs, buildOk \in BOOLEAN : EnsureInit(1, cfg, buildOk)
    \/ \E launchOk \in BOOLEAN : EnsureLaunch(1, launchOk)
    \/ EnsureSet(1)
    \/ \E inp \in WhoisInputs : whois_enter(1, inp)
    \/ whois_drain(1)
    \/ whois_test(1)
    \/ whois_get(1)
    \/ Indication([dev_type |-> "device", dev_inst |-> 10, source_mac |-> 1,
                   wellFormed |-> TRUE])
    \/ EngineRunDeferred
    \/ Tick

\* the caller thread is scheduled and time passes
FairWhois ==
    /\ Init
    /\ [][NextWhoisTimed]_vars
    /\ WF_vars(whois_test(1))
    /\ WF_vars(whois_get(1))
    /\ WF_vars(Tick)

\* one caller of whois with a destination and limits on a session that
\* starts, the engine with the I-Am of one device, and the clock
NextRequest ==
    \/ EnsureEnter(1, "whois")
    \/ /\ pc[1] = "es_init"
       /\ EnsureInit(1, ValidConfig, TRUE)
    \/ EnsureLaunch(1, TRUE)
    \/ EnsureSet(1)
    \/ \E inp \in WhoisRequests : whois_enter(1, inp)
    \/ whois_drain(1)
    \/ whois_test(1)
    \/ whois_get(1)
    \/ Indication([dev_type |-> "device", dev_inst |-> 10, source_mac |-> 1,
                   wellFormed |-> TRUE])
    \/ EngineRunDeferred
    \/ Tick

SpecRequest == Init /\ [][NextRequest]_vars

\* the engine handing APDUs of every kind to the application of a session
\* that starts, and a caller of whois taking the records
NextIndication ==
    \/ EnsureEnter(1, "whois")
    \/ /\ pc[1] = "es_init"
       /\ EnsureInit(1, ValidConfig, TRUE)
    \/ EnsureLaunch(1, TRUE)
    \/ EnsureSet(1)
    \/ \E inp \in WhoisInputs : whois_enter(1, inp)
    \/ whois_drain(1)
    \/ whois_test(1)
    \/ whois_get(1)
    \/ \E apdu \in Apdus : indication(apdu)
    \/ EngineRunDeferred
    \/ Tick

SpecIndication == Init /\ [][NextIndication]_vars

\* the I-Am requests of two devices
OverlapApdus ==
    [dev_type : {"device"}, dev_inst : {10, 20}, source_mac : {1},
     wellFormed : {TRUE}]

\* the calls two threads make at the same time
OverlapInputs ==
    [timeout : {1}, dest : {None}, low_limit : {None}, high_limit : {None}]

\* two threads calling whois on a session that starts, the engine with the
\* I-Am requests of two devices, and the clock
NextOverlap ==
    \/ \E t \in {1, 2} : EnsureEnter(t, "whois")
    \/ \E t \in {1, 2} :
          /\ pc[t] = "es_init"
          /\ EnsureInit(t, ValidConfig, TRUE)
    \/ \E t \in {1, 2} : EnsureLaunch(t, TRUE)
    \/ \E t \in {1, 2} : EnsureSet(t)
    \/ \E t \in {1, 2} : \E inp \in OverlapInputs : whois_enter(t, inp)
    \/ \E t \in {1, 2} : whois_drain(t)
    \/ \E t \in {1, 2} : whois_test(t)
    \/ \E t \in {1, 2} : whois_get(t)
    \/ \E apdu \in OverlapApdus : Indication(apdu)
    \/ EngineRunDeferred
    \/ Tick

SpecOverlap == Init /\ [][NextOverlap]_vars

(* ------------------------- DevicePropertyNode -------------------------- *)

\* a Variant: its VariantType and the value its getter returns
Variant(vt, v) == [vt |-> vt, v |-> v]

\* the nodes provided: the identifiers the node's path holds and the initial
\* value
NodeKinds ==
    { [ids |-> [device_id |-> 10, ot |-> "analogValue", inst |-> 1],
       initialValue |-> Variant("FLOAT64", NormFloat(0, 0))],
      [ids |-> [device_id |-> 10, ot |-> "binaryOutput", inst |-> 1],
       initialValue |-> Variant("BOOL8", [py |-> "bool", b |-> FALSE])] }

\* the data written
NodeWrites ==
    { Variant("FLOAT64", NormFloat(235, 1)),
      Variant("BOOL8", [py |-> "bool", b |-> TRUE]),
      Variant("INT32", PyInt(3)) }

\* the devices the scan may have cached
NodeDevices ==
    { [device_instance |-> 10, source_mac |-> 5],
      [device_instance |-> 10] }

\* DevicePropertyNode.__init__: w is the data of the write at hand, calls
\* the arguments of the calls of write_property it made and answer what was
\* passed to cb
node_init(k) ==
    /\ node.state = "none"
    /\ node' = [state |-> "ready", ids |-> k.ids, _data |-> k.initialValue,
                w |-> None, calls |-> <<>>, answer |-> None]
    /\ UNCHANGED <<lock, started, app, engine, deferredFns, pc, op, iocb,
                   res, bodyRuns, launches, submitted, args, disc, who,
                   iamQueue, enq, defs, device_cache, cacheLog, scan,
                   orphan, forwarded>>

\* get_variant_value_by_type(data, data.get_type())
GetVariantValue(data) == data.v

\* `self._data.get_type() != data.get_type()`
TypeDiffers(a, b) == a.vt # b.vt

\* the arguments of the call of write_property in __on_write
NodeWriteCall(n, data) ==
    [addr |-> MacOf(device_cache, n.ids.device_id),
     target |-> Target(n.ids.ot, n.ids.inst, "presentValue"),
     value |-> EncodePresentValue(n.ids.ot, GetVariantValue(data)),
     index |-> None,
     priority |-> PyInt(8)]

\* __on_write up to the call of write_property, whose first statement is
\* ensure_started
on_write(data) ==
    /\ node.state = "ready"
    /\ pc[1] = "idle"
    /\ IF TypeDiffers(node._data, data)
       THEN /\ node' = [node EXCEPT
                          !.w = data, !.calls = <<>>,
                          !.answer = [result |-> "TYPE_MISMATCH",
                                      data |-> None]]
            /\ UNCHANGED <<lock, started, app, engine, deferredFns, pc, op,
                           iocb, res, bodyRuns, launches, submitted, args,
                           disc, who, iamQueue, enq, defs, device_cache,
                           cacheLog, scan, orphan, forwarded>>
       ELSE /\ EnsureEnterBody(1, "write_property")
            /\ orphan' = orphan
            /\ node' = [node EXCEPT
                          !.state = "writing", !.w = data,
                          !.calls = <<NodeWriteCall(node, data)>>,
                          !.answer = None]

\* __on_write after write_property: its exception ends the handler, its
\* return is followed by `result, self._data = data.clone()` and
\* cb(Result.OK, self._data)
on_write_done ==
    /\ node.state = "writing"
    /\ pc[1] = "idle"
    /\ op[1] = "write_property"
    /\ node' = IF res[1].kind = "raised"
               THEN [node EXCEPT !.state = "ready"]
               ELSE [node EXCEPT !.state = "ready", !._data = node.w,
                                 !.answer = [result |-> "OK",
                                             data |-> node.w]]
    /\ UNCHANGED <<lock, started, app, engine, deferredFns, pc, op, iocb,
                   res, bodyRuns, launches, submitted, args, disc, who,
                   iamQueue, enq, defs, device_cache, cacheLog, scan,
                   orphan, forwarded>>

\* a node written on thread 1, the scan caching the device on thread 2, and
\* the engine
NextNode ==
    \/ \E k \in NodeKinds : node_init(k)
    \/ \E device \in NodeDevices : cache_device(2, device)
    \/ \E data \in NodeWrites : on_write(data)
    \/ /\ pc[1] = "es_init"
       /\ EnsureInit(1, ValidConfig, TRUE)
    \/ EnsureLaunch(1, TRUE)
    \/ EnsureSet(1)
    \/ /\ node.state = "writing"
       /\ \E lib \in BOOLEAN, castInOk \in BOOLEAN :
             write_submit(1, node.calls[1], lib, castInOk)
    \/ iocb[1].state = "pending" /\ EngineStep(1, "txn")
    \/ write_return(1)
    \/ on_write_done

SpecNode == Init /\ [][NextNode]_vars

(* ------------------------------ claims --------------------------------- *)

\* thread t has returned from a call that submitted a transaction
ReturnedAfterWait(t) ==
    /\ op[t] \in TxnOps
    /\ pc[t] = "idle"
    /\ submitted[t] >= 1

\* C1: under concurrent calls of ensure_started (directly or through an
\* operation) the initialisation body runs at most once and the engine thread
\* is launched at most once; a caller that has come back from ensure_started
\* sees the session started, by exactly one run of the body, with an
\* application handle; once started, the flag stays true and the handle is
\* never replaced.
C1_StartOnce ==
    /\ [](/\ bodyRuns <= 1
          /\ launches <= 1
          /\ started => (bodyRuns = 1 /\ launches = 1 /\ app # 0)
          /\ \A t \in Threads :
                (\/ pc[t] \in {"body", "wait"}
                 \/ (op[t] \in StartOps /\ res[t].kind = "returned"))
                => (started /\ bodyRuns = 1 /\ app # 0))
    /\ [][started => (started' /\ app' = app)]_vars

\* two callers have come back from ensure_started on the one started session
C1_Witness ==
    \E t, u \in Threads :
        /\ t # u
        /\ pc[t] = "body"
        /\ pc[u] = "body"
        /\ started
        /\ bodyRuns = 1

\* C2: a step that stops the engine of a running session (mstp_shutdown)
\* returns the session to NotStarted: it no longer reports itself as started,
\* so that the next ensure_started initialises again.
C2_ShutdownReturnsToNotStarted ==
    [][(started /\ engine = "running" /\ engine' = "stopped") => ~started']_vars

\* C3: an accessor of the application handle (get_app, get_local_device,
\* get_port) called while no start has succeeded, none being in progress
\* either, ends with the NotStarted error.
C3_NotStartedBeforeStart ==
    [][\A t \in Threads :
          (/\ ~started
           /\ lock = NoThread
           /\ op'[t] \in AppOps
           /\ <<op[t], res[t]>> # <<op'[t], res'[t]>>)
          => res'[t] = Raised(op'[t], "NotStarted")]_vars

\* C4: on a started session no call of read_property or write_property ends
\* with an uncaught exception: the only exceptions a caller sees are those of
\* a failed start.
C4_NoUncaughtException ==
    \A t \in Threads :
        (op[t] \in TxnOps /\ res[t].kind = "raised")
        => res[t].data \in {"ConfigError", "BuildError", "ThreadError"}

\* C5: a call of read_property or write_property submits at most one
\* transaction; while it waits it has submitted exactly one; when it has
\* returned after submitting, its own transaction is complete and its result
\* is the one the error and the response of that transaction determine: the
\* error when there is one, the value of its own acknowledgment for a value
\* result, a simple acknowledgment of its own for an ack result.
C5_OwnTransaction ==
    \A t \in Threads :
        /\ submitted[t] <= 1
        /\ pc[t] = "wait" => (submitted[t] = 1 /\ iocb[t].state # "none")
        /\ ReturnedAfterWait(t) =>
             /\ submitted[t] = 1
             /\ iocb[t].state = "done"
             /\ iocb[t].ioError # None =>
                    res[t] = Returned(op[t], ErrorDict(StrOfError(iocb[t].ioError)))
             /\ (res[t].kind = "returned" /\ res[t].data.r = "value") =>
                    /\ iocb[t].ioError = None
                    /\ IsPdu(iocb[t].ioResponse, "ReadPropertyACK")
                    /\ res[t].data.value = iocb[t].ioResponse.propertyValue.v
             /\ (res[t].kind = "returned" /\ res[t].data.r = "ack") =>
                    /\ iocb[t].ioError = None
                    /\ IsPdu(iocb[t].ioResponse, "SimpleAckPDU")
             /\ (res[t].kind = "returned" /\ res[t].data.r = "error"
                 /\ iocb[t].ioError = None) =>
                    ~IsPdu(iocb[t].ioResponse,
                           IF op[t] = "read_property" THEN "ReadPropertyACK"
                           ELSE "SimpleAckPDU")

\* a caller has returned the value of its own acknowledgment while the
\* transaction of another caller holds a different response
C5_Witness ==
    \E t, u \in Threads :
        /\ t # u
        /\ ReturnedAfterWait(t)
        /\ res[t].kind = "returned"
        /\ res[t].data.r = "value"
        /\ pc[u] = "wait"
        /\ iocb[u].state = "done"
        /\ iocb[u].ioResponse # iocb[t].ioResponse

\* C6: a call of read_property or write_property that waits returns in the
\* end unless the engine is stopped with its transaction still pending, and it
\* leaves the wait only when its transaction is complete: without a
\* completion it waits for ever.
C6_ReturnsOnlyOnCompletion ==
    /\ \A t \in Threads :
          (pc[t] = "wait")
          ~> (\/ pc[t] # "wait"
              \/ (engine = "stopped" /\ iocb[t].state = "pending"))
    /\ [][\A t \in Threads :
            (pc[t] = "wait" /\ pc'[t] # "wait") => iocb[t].state = "done"]_vars

\* a caller waits on a transaction the stopped engine will never complete
\* while another caller has returned from a completed transaction
C6_Witness ==
    \E t, u \in Threads :
        /\ t # u
        /\ pc[t] = "wait"
        /\ iocb[t].state = "pending"
        /\ engine = "stopped"
        /\ ReturnedAfterWait(u)
        /\ iocb[u].state = "done"

\* the arguments of the call of t name a pair with no datatype
C7_UnknownTarget(t) ==
    /\ args[t] # None
    /\ args[t].target \in {Target("analogValue", 1, "bogus"),
                           Target("widget", 1, "presentValue")}

\* C7: a call of read_property or write_property for an object type and
\* property whose datatype is not resolved has returned the unknown-property
\* error and has built and submitted no transaction.
C7_UnknownPropertyNoTransaction ==
    \A t \in Threads :
        (op[t] \in TxnOps /\ C7_UnknownTarget(t)) =>
            /\ pc[t] = "idle"
            /\ submitted[t] = 0
            /\ iocb[t] = NoIocb
            /\ res[t] = Returned(op[t], ErrorDict("invalid property"))

\* read_property has returned the unknown-property error for an unknown pair
C7_Witness ==
    \E t \in Threads :
        /\ op[t] = "read_property"
        /\ C7_UnknownTarget(t)
        /\ res[t] = Returned("read_property", ErrorDict("invalid property"))
        /\ started

\* the acknowledgment the operation of t expects
C8_Expected(t) ==
    IF op[t] = "read_property" THEN "ReadPropertyACK" ELSE "SimpleAckPDU"

\* C8: when a call has returned after its wait, a completion with an engine
\* error has given the error result built from that error, whatever the
\* response; a completion without error whose response is not the expected
\* acknowledgment has given the protocol error; a success result comes only
\* from the expected acknowledgment without error; and an exception is raised
\* in neither of the two error cases.
C8_CompletionOutcome ==
    \A t \in Threads :
        ReturnedAfterWait(t) =>
            /\ iocb[t].ioError # None =>
                  res[t] = Returned(op[t], ErrorDict(StrOfError(iocb[t].ioError)))
            /\ (iocb[t].ioError = None
                /\ ~IsPdu(iocb[t].ioResponse, C8_Expected(t))) =>
                  res[t] = Returned(op[t],
                                    ErrorDict(IF op[t] = "read_property"
                                              THEN "no ack"
                                              ELSE "no simple ack"))
            /\ (res[t].kind = "returned" /\ res[t].data.r \in {"value", "ack"})
                  => (/\ iocb[t].ioError = None
                      /\ IsPdu(iocb[t].ioResponse, C8_Expected(t)))
            /\ res[t].kind = "raised" =>
                  (/\ iocb[t].ioError = None
                   /\ IsPdu(iocb[t].ioResponse, C8_Expected(t)))

\* a completion carrying both an error and the expected acknowledgment has
\* given the error result
C8_Witness ==
    \E t \in Threads :
        /\ ReturnedAfterWait(t)
        /\ iocb[t].ioError # None
        /\ IsPdu(iocb[t].ioResponse, C8_Expected(t))
        /\ res[t] = Returned(op[t], ErrorDict(StrOfError(iocb[t].ioError)))

C9_Ambiguous == Target("schedule", 1, "presentValue")
C9_Numeric ==
    {Target("integerValue", 1, "presentValue"),
     Target("multiStateValue", 1, "presentValue"),
     Target("analogValue", 1, "presentValue")}

\* values that cannot be parsed for the target: for an ambiguous type, a
\* payload that is no number of the tagged type, an unknown tag, no separator
\* or no str at all; for a numeric type, a literal that is no number
C9_Unparsable(a) ==
    \/ /\ a.target = C9_Ambiguous
       /\ a.value \in { Str(<<"u", ":", "a", "b", "c">>),
                        Str(<<"u", ":", "-", "3">>),
                        Str(<<"x", ":", "7">>), Str(<<":", "7">>),
                        Str(<<"7">>), Str(<<"a", "b", "c">>),
                        Str(<<"1", ".", "5">>),
                        [py |-> "bool", b |-> TRUE], PyInt(3) }
    \/ /\ a.target \in C9_Numeric
       /\ a.value \in { Str(<<"a", "b", "c">>), Str(<<"u", ":", "7">>),
                        Str(<<"a", "c", "t", "i", "v", "e">>),
                        Str(<<":", "7">>) }

C9_CastError == Returned("write_property", ErrorDict("value cast error"))

\* C9: a call of write_property whose value cannot be parsed or cast has
\* returned the cast error, with no exception and nothing submitted; a cast
\* error (of the parse or of cast_in) never comes with a submitted request; every request submitted carries
\* an encoded value; and the only exception of a started write_property does
\* not come from the value.
C9_CastErrorNoTransmission ==
    \A t \in Threads :
        (op[t] = "write_property" /\ args[t] # None) =>
            /\ C9_Unparsable(args[t]) =>
                  (/\ res[t] = C9_CastError
                   /\ pc[t] = "idle"
                   /\ submitted[t] = 0
                   /\ iocb[t] = NoIocb)
            /\ res[t] \in {C9_CastError,
                          Returned("write_property", ErrorDict("cast_in error"))}
                  => submitted[t] = 0
            /\ submitted[t] >= 1 =>
                  (/\ iocb[t].req.service = "WriteProperty"
                   /\ iocb[t].req.propertyValue.py = "bacnet")
            /\ (res[t].kind = "raised" /\ submitted[t] = 0) =>
                  args[t].addr = None

\* "u:abc" written to an ambiguous-type property has given the cast error
C9_Witness ==
    \E t \in Threads :
        /\ op[t] = "write_property"
        /\ args[t] # None
        /\ args[t].target = C9_Ambiguous
        /\ args[t].value = Str(<<"u", ":", "a", "b", "c">>)
        /\ res[t] = C9_CastError
        /\ submitted[t] = 0

\* the encoding the tagged values of the model must get
C10_Tagged ==
    { <<Str(<<"u", ":", "7">>), Enc("Unsigned", PyInt(7))>>,
      <<Str(<<"i", ":", "-", "3">>), Enc("Integer", PyInt(-3))>>,
      <<Str(<<"r", ":", "1", ".", "5">>),
        Enc("Real", [py |-> "float", m |-> 15, e |-> 1])>>,
      <<Str(<<"d", ":", "2">>),
        Enc("Double", [py |-> "float", m |-> 2, e |-> 0])>>,
      <<Str(<<"b", "s", ":", "1">>), Enc("BitString", Str(<<"1">>))>>,
      <<Str(<<"c", ":", "a", ":", "b">>),
        Enc("CharacterString", Str(<<"a", ":", "b">>))>> }

\* values with a tag outside the closed set or with no separator
C10_Untagged ==
    { Str(<<"x", ":", "7">>), Str(<<":", "7">>), Str(<<"7">>),
      Str(<<"a", "b", "c">>), Str(<<"1", ".", "5">>), Str(<<" ", "4", "2">>),
      Str(<<"a", "c", "t", "i", "v", "e">>) }

\* C10: for the ambiguous-type property, a request submitted for a tagged
\* value carries the value encoded with the type its tag selects ("u:7" is
\* Unsigned 7) and "u:7" never gives a cast error; a value with an unknown tag
\* or without separator has given the cast error with nothing submitted; for
\* every resolved type the literal "null" never gives a cast error and a
\* request submitted for it carries Null.
C10_TaggedEncoding ==
    \A t \in Threads :
        (op[t] = "write_property" /\ args[t] # None) =>
            /\ args[t].target = C9_Ambiguous =>
                  /\ \A p \in C10_Tagged :
                        (args[t].value = p[1] /\ submitted[t] >= 1) =>
                            iocb[t].req.propertyValue = p[2]
                  /\ args[t].value = Str(<<"u", ":", "7">>) =>
                        res[t] # C9_CastError
                  /\ args[t].value \in C10_Untagged =>
                        (res[t] = C9_CastError /\ submitted[t] = 0)
            /\ args[t].value = Str(NullLiteral) =>
                  /\ res[t] # C9_CastError
                  /\ submitted[t] >= 1 =>
                        iocb[t].req.propertyValue = Enc("Null", None)

\* "u:7" written to the ambiguous-type property has been submitted as
\* Unsigned 7
C10_Witness ==
    \E t \in Threads :
        /\ op[t] = "write_property"
        /\ args[t] # None
        /\ args[t].target = C9_Ambiguous
        /\ args[t].value = Str(<<"u", ":", "7">>)
        /\ submitted[t] = 1
        /\ iocb[t].req.propertyValue = Enc("Unsigned", PyInt(7))

\* C11: a request submitted by write_property for an array-typed property
\* with an explicit index (the value not being the literal "null") carries
\* the value encoded as Unsigned when the index is 0 and as the element type
\* of the array for every other index.
C11_ArrayIndexEncoding ==
    \A t \in Threads :
        (/\ op[t] = "write_property"
         /\ args[t] # None
         /\ submitted[t] >= 1
         /\ IsArray(get_datatype(args[t].target.ot, args[t].target.prop))
         /\ args[t].index # None
         /\ args[t].value # Str(NullLiteral))
        => iocb[t].req.propertyValue.type =
              IF args[t].index.n = 0 THEN "Unsigned"
              ELSE SubtypeOf(get_datatype(args[t].target.ot,
                                          args[t].target.prop))

\* the causes for which write_property ends without a request
C12_ClientSideEnds ==
    { Raised("write_property", "NotStarted"),
      Raised("write_property", "TypeError"),
      Returned("write_property", ErrorDict("invalid property")),
      Returned("write_property", ErrorDict("value cast error")),
      Returned("write_property", ErrorDict("unsupported array subtype")),
      Returned("write_property", ErrorDict("cast_in error")) }

\* C12: the request write_property submits carries the priority and the
\* array index of the call unchanged, whatever the integer (0, negative and
\* above 16 included), and carries none when the argument is absent; a call
\* that ended without a request ended for the session, the property, the
\* value or the address, and with a resolved property, a numeric literal and
\* an address it ends without a request only when cast_in refuses the value,
\* whatever the priority.
C12_PriorityAndIndexUnmodified ==
    \A t \in Threads :
        (op[t] = "write_property" /\ args[t] # None) =>
            /\ submitted[t] >= 1 =>
                  /\ iocb[t].req.priority = args[t].priority
                  /\ iocb[t].req.index = args[t].index
            /\ (pc[t] = "idle" /\ submitted[t] = 0) =>
                  res[t] \in C12_ClientSideEnds
            /\ (/\ pc[t] = "idle"
                /\ submitted[t] = 0
                /\ args[t].target = Target("analogValue", 1, "presentValue")
                /\ args[t].value = Str(<<"7">>)
                /\ args[t].addr # None) =>
                  res[t] = Returned("write_property", ErrorDict("cast_in error"))

\* a write with priority 17, and none with an index, has been submitted with
\* priority 17 and no index in the request
C12_Witness ==
    \E t \in Threads :
        /\ op[t] = "write_property"
        /\ args[t] # None
        /\ args[t].priority = PyInt(17)
        /\ args[t].index = None
        /\ submitted[t] = 1
        /\ iocb[t].req.priority = PyInt(17)
        /\ iocb[t].req.index = None

\* the closure of thread t belongs to a call of discover
Discovering(t) == disc[t].state \in {"open", "returned"}

\* the reply is an acknowledgment of the read it answers: no engine error,
\* the object list of the device asked, the index asked, a count at index 0
\* and an object identifier elsewhere
ValidAck(rep, dev) ==
    /\ rep.err = None
    /\ IsPdu(rep.rsp, "ReadPropertyACK")
    /\ rep.rsp.objectIdentifier = <<"device", dev.n>>
    /\ rep.rsp.propertyIdentifier = "objectList"
    /\ rep.rsp.propertyArrayIndex = rep.idx
    /\ rep.rsp.propertyValue.type =
          IF rep.idx.n = 0 THEN "Unsigned" ELSE "ObjectIdentifier"

\* the first k replies are valid acknowledgments
ValidUpTo(d, k) ==
    \A i \in 1 .. k : ValidAck(d.replies[i], d.inp.device_id)

\* the values decoded from the replies 2 .. k, the answers to the reads of
\* the indexes 1 .. k - 1
DecodedUpTo(d, k) ==
    [i \in 1 .. k - 1 |-> CastOut(d.replies[i + 1].rsp.propertyValue)]

\* the count the device reported at index 0
ReportedCount(d) == d.replies[1].rsp.propertyValue.v.n

\* the device answered the read of index 0 with the count 0
C13_CountZero(d) ==
    /\ Len(d.replies) >= 1
    /\ ValidAck(d.replies[1], d.inp.device_id)
    /\ ReportedCount(d) = 0

\* C13: once the device has answered the read of index 0 with the count 0,
\* the only read discover ever issues is the one of index 0, nothing is in
\* flight, the results and the error holder are empty, the completion signal
\* is raised as soon as the continuation has run and does get raised; the
\* call returns an empty object list, without error when the wait saw the
\* signal.
C13_EmptyObjectList ==
    /\ [](\A t \in Threads :
            (Discovering(t) /\ C13_CountZero(disc[t])) =>
                /\ disc[t].reads = <<0>>
                /\ disc[t].pending = <<>>
                /\ disc[t].results = <<>>
                /\ disc[t].error_holder = <<>>
                /\ disc[t].done # (disc[t].deferredSend > 0)
                /\ disc[t].state = "returned" =>
                      /\ res[t].data.object_list = <<>>
                      /\ disc[t].woken =>
                            res[t] = Returned("discover",
                                              ObjectListDict(<<>>)))
    /\ \A t \in Threads :
          (Discovering(t) /\ C13_CountZero(disc[t]))
              ~> (Discovering(t) => disc[t].done)

\* a call whose device reported the count 0 has returned the empty list
\* without error
C13_Witness ==
    \E t \in Threads :
        /\ disc[t].state = "returned"
        /\ C13_CountZero(disc[t])
        /\ disc[t].woken
        /\ disc[t].done
        /\ res[t] = Returned("discover", ObjectListDict(<<>>))

\* C14: as long as every reply is a valid acknowledgment, the reads issued
\* are those of the indexes 0, 1, 2, ... in this order, none beyond the count
\* n reported at index 0, the results are the decoded replies in the order of
\* the indexes and no error is recorded; a call whose wait saw the signal has
\* read the indexes 0 .. n and returns exactly the n decoded objects, without
\* error.
C14_AscendingOrder ==
    \A t \in Threads :
        (Discovering(t) /\ ValidUpTo(disc[t], Len(disc[t].replies))) =>
            LET d == disc[t] IN
            /\ d.reads = [i \in 1 .. Len(d.reads) |-> i - 1]
            /\ Len(d.replies) <= Len(d.reads)
            /\ Len(d.reads) <= Len(d.replies) + 1
            /\ d.error_holder = <<>>
            /\ Len(d.replies) >= 1 =>
                  /\ Len(d.reads) <= ReportedCount(d) + 1
                  /\ d.results = DecodedUpTo(d, Len(d.replies))
            /\ (d.state = "returned" /\ d.woken) =>
                  /\ Len(d.replies) = ReportedCount(d) + 1
                  /\ Len(d.reads) = ReportedCount(d) + 1
                  /\ Len(res[t].data.object_list) = ReportedCount(d)
                  /\ res[t] = Returned("discover",
                                 ObjectListDict(
                                    JsonSafe(DecodedUpTo(d, Len(d.replies)))))

\* a call has returned the two different objects of a device that reported
\* the largest count
C14_Witness ==
    \E t \in Threads :
        /\ disc[t].state = "returned"
        /\ disc[t].woken
        /\ ValidUpTo(disc[t], Len(disc[t].replies))
        /\ Len(disc[t].replies) = MaxCount + 1
        /\ ReportedCount(disc[t]) = MaxCount
        /\ disc[t].reads = [i \in 1 .. MaxCount + 1 |-> i - 1]
        /\ res[t].data.r = "object_list"
        /\ Len(res[t].data.object_list) = MaxCount
        /\ res[t].data.object_list[1] # res[t].data.object_list[2]

\* the reply is an engine error, not an acknowledgment, or an acknowledgment
\* whose datatype is not resolved
C15_Aborting(rep) ==
    \/ rep.err # None
    \/ ~IsPdu(rep.rsp, "ReadPropertyACK")
    \/ Unresolved(get_datatype(rep.rsp.objectIdentifier[1],
                               rep.rsp.propertyIdentifier))

\* the error discover records for an aborting reply
C15_Message(rep) ==
    IF rep.err # None THEN StrOfError(rep.err)
    ELSE IF ~IsPdu(rep.rsp, "ReadPropertyACK") THEN "not an ack"
    ELSE "unknown datatype for objectList"

\* C15: once a reply is an engine error, a non-acknowledgment or of an
\* unresolved datatype, it is the last reply: no read is issued after it,
\* nothing is in flight or deferred, the error holder holds that error and no
\* other, the completion signal is raised; the results are the decoded
\* replies to the indexes before it when those were valid acknowledgments,
\* and a call whose wait saw the signal returns them with the recorded error.
C15_FirstErrorStops ==
    \A t \in Threads :
        Discovering(t) =>
            \A i \in 1 .. Len(disc[t].replies) :
                C15_Aborting(disc[t].replies[i]) =>
                    LET d == disc[t] IN
                    /\ i = Len(d.replies)
                    /\ Len(d.reads) = i
                    /\ d.pending = <<>>
                    /\ d.deferredSend = 0
                    /\ d.error_holder = <<C15_Message(d.replies[i])>>
                    /\ d.done
                    /\ ValidUpTo(d, i - 1) =>
                          /\ d.reads = [j \in 1 .. i |-> j - 1]
                          /\ d.results = DecodedUpTo(d, i - 1)
                    /\ (d.state = "returned" /\ d.woken) =>
                          res[t] = Returned("discover",
                                      ErrorObjectListDict(
                                         C15_Message(d.replies[i]),
                                         JsonSafe(d.results)))

\* a call whose read of index 2 ended in an engine error has returned the
\* object of index 1 with that error
C15_Witness ==
    \E t \in Threads :
        /\ disc[t].state = "returned"
        /\ disc[t].woken
        /\ Len(disc[t].replies) = 3
        /\ ValidUpTo(disc[t], 2)
        /\ disc[t].replies[3].err # None
        /\ disc[t].replies[3].idx = PyInt(2)
        /\ Len(disc[t].results) = 1
        /\ res[t] = Returned("discover",
                       ErrorObjectListDict("timeout",
                                           JsonSafe(disc[t].results)))

\* C16: a call of discover never waits longer than its timeout; a call that
\* leaves the wait with the completion signal not raised returns at that
\* step the timeout error together with every object accumulated so far;
\* and every wait ends, also when the engine never replies.
C16_TimeoutKeepsPartial ==
    /\ [](\A t \in Threads :
            pc[t] = "d_wait" => disc[t].elapsed <= disc[t].inp.timeout)
    /\ [][\A t \in Threads :
            (pc[t] = "d_wait" /\ pc'[t] = "idle" /\ ~disc[t].done) =>
                /\ disc[t].elapsed = disc[t].inp.timeout
                /\ res'[t] = Returned("discover",
                                ErrorObjectListDict("discover timeout",
                                                    JsonSafe(disc[t].results)))
         ]_vars
    /\ \A t \in Threads : (pc[t] = "d_wait") ~> (pc[t] = "idle")

\* a call has timed out after a positive time, the signal not raised, and has
\* returned the object read so far with the timeout error
C16_Witness ==
    \E t \in Threads :
        /\ disc[t].state = "returned"
        /\ ~disc[t].woken
        /\ ~disc[t].done
        /\ disc[t].elapsed >= 1
        /\ Len(disc[t].results) >= 1
        /\ res[t] = Returned("discover",
                       ErrorObjectListDict("discover timeout",
                                           JsonSafe(disc[t].results)))

\* the locals of thread t belong to a call of whois
Collecting(t) == who[t].state \in {"open", "returned"}

\* the last record of the device instance inst that was dequeued
C17_LastDequeued(dq, inst) ==
    dq[CHOOSE i \in DOMAIN dq :
          /\ dq[i].device_instance = inst
          /\ \A j \in DOMAIN dq : dq[j].device_instance = inst => j <= i]

\* C17: the records whois has accumulated, and the list it returns, hold at
\* most one record per device instance, one for every instance dequeued by
\* the call, and the record of an instance is the last one dequeued for it.
C17_OneRecordPerInstance ==
    \A t \in Threads :
        Collecting(t) =>
            LET w == who[t] IN
            /\ \A i, j \in DOMAIN w.seen :
                  w.seen[i].device_instance = w.seen[j].device_instance
                      => i = j
            /\ \A i \in DOMAIN w.seen :
                  /\ \E k \in DOMAIN w.dequeued :
                        w.dequeued[k].device_instance =
                            w.seen[i].device_instance
                  /\ w.seen[i] = C17_LastDequeued(w.dequeued,
                                                  w.seen[i].device_instance)
            /\ \A k \in DOMAIN w.dequeued :
                  \E i \in DOMAIN w.seen :
                     w.seen[i].device_instance = w.dequeued[k].device_instance
            /\ w.state = "returned" =>
                  res[t] = Returned("whois", DevicesList(w.seen))

\* a call that dequeued two different responses of one device and a response
\* of another has returned two records, the later one for the first device
C17_Witness ==
    \E t \in Threads :
        /\ who[t].state = "returned"
        /\ Len(who[t].dequeued) = 3
        /\ who[t].dequeued[1].device_instance = 10
        /\ who[t].dequeued[2].device_instance = 20
        /\ who[t].dequeued[3].device_instance = 10
        /\ who[t].dequeued[1].source_mac # who[t].dequeued[3].source_mac
        /\ res[t] = Returned("whois",
                       DevicesList(<<who[t].dequeued[3], who[t].dequeued[2]>>))

\* C18: from the moment the collection loop starts, a call of whois with
\* timeout T is in the loop for at most T plus one poll interval; a blocking
\* dequeue waits at most one poll interval; no time passes between two
\* dequeues; once T has passed the next step of the loop returns; and the
\* call does leave the loop.
C18_BoundedCollection ==
    /\ [](\A t \in Threads :
            Collecting(t) =>
                /\ who[t].elapsed <= who[t].inp.timeout + PollTicks
                /\ who[t].block <= PollTicks
                /\ who[t].block <= who[t].elapsed)
    /\ [][\A t \in Threads :
            /\ (pc[t] \in {"w_drain", "w_loop"} /\ Collecting(t)
                /\ who'[t].state # "none")
                  => who'[t].elapsed = who[t].elapsed
            /\ (pc[t] = "w_loop" /\ pc'[t] # "w_loop"
                /\ who[t].elapsed >= who[t].inp.timeout)
                  => (pc'[t] = "idle" /\ res'[t].kind = "returned")
            /\ (pc[t] = "w_loop" /\ pc'[t] = "w_get")
                  => who[t].elapsed < who[t].inp.timeout
         ]_vars
    /\ \A t \in Threads : (pc[t] \in {"w_loop", "w_get"}) ~> (pc[t] = "idle")

\* a call with the largest timeout has returned after blocking in a dequeue
\* that began one tick before the deadline and lasted the whole poll interval
C18_Witness ==
    \E t \in Threads :
        /\ who[t].state = "returned"
        /\ who[t].inp.timeout = MaxTimeout
        /\ who[t].block = PollTicks
        /\ who[t].elapsed = MaxTimeout - 1 + PollTicks
        /\ who[t].elapsed > who[t].inp.timeout
        /\ Len(who[t].dequeued) >= 1

\* C19: no record that had been put in a queue before the call of whois
\* began is dequeued by its collection loop, kept, or returned.
C19_StaleDiscarded ==
    \A t \in Threads :
        Collecting(t) =>
            /\ \A k \in DOMAIN who[t].dequeued :
                  who[t].dequeued[k].seq > who[t].mark
            /\ \A i \in DOMAIN who[t].seen : who[t].seen[i].seq > who[t].mark
            /\ who[t].state = "returned" =>
                  \A i \in DOMAIN res[t].data.l :
                     res[t].data.l[i].seq > who[t].mark
            /\ pc[t] \in {"w_loop", "w_get"} =>
                  \A k \in DOMAIN iamQueue : iamQueue[k].seq > who[t].mark

\* a call that found a response in the queue has discarded it and returned a
\* response that arrived later
C19_Witness ==
    \E t \in Threads :
        /\ who[t].state = "returned"
        /\ who[t].mark >= 1
        /\ who[t].drained >= 1
        /\ Len(res[t].data.l) >= 1
        /\ res[t].data.l[1].seq > who[t].mark

\* C20: a call of whois never ends with an exception, whatever the state of
\* the session at the call and whatever was queued: it returns a list, empty
\* when its collection loop received nothing.
C20_WhoisNeverRaises ==
    \A t \in Threads :
        (op[t] = "whois" /\ pc[t] = "idle") =>
            /\ res[t].kind = "returned"
            /\ res[t].data.r = "devices"
            /\ who[t].dequeued = <<>> => res[t].data.l = <<>>

\* C30: within one chain of discover at most one read is outstanding at any
\* time, and none while a continuation waits to submit the next; the read in
\* flight is the last one issued and every read before it has been answered;
\* a step that processes a reply hands at most one continuation to the
\* engine and submits nothing itself.
C30_OneOutstandingRead ==
    /\ [](\A t \in Threads :
            Discovering(t) =>
                LET d == disc[t] IN
                /\ Len(d.pending) + d.deferredSend <= 1
                /\ Len(d.reads) = Len(d.replies) + Len(d.pending)
                /\ d.pending # <<>> =>
                      d.pending = <<PyInt(d.reads[Len(d.reads)])>>)
    /\ [][\A t \in Threads :
            (Discovering(t) /\ disc'[t].state = disc[t].state
             /\ Len(disc'[t].replies) = Len(disc[t].replies) + 1) =>
                /\ disc'[t].deferredSend <= disc[t].deferredSend + 1
                /\ disc'[t].reads = disc[t].reads
                /\ disc'[t].pending = <<>>
         ]_vars

\* the read of index 2 is in flight after the replies to the reads of
\* indexes 0 and 1 have been processed
C30_Witness ==
    \E t \in Threads :
        /\ Discovering(t)
        /\ disc[t].pending = <<PyInt(2)>>
        /\ Len(disc[t].replies) = 2
        /\ disc[t].reads = <<0, 1, 2>>
        /\ disc[t].deferredSend = 0

\* the decode type the statement of C29 gives for the acknowledgment apdu of
\* a read whose request carried index
C29_ClaimedClass(apdu, index) ==
    LET dt == get_datatype(apdu.objectIdentifier[1], apdu.propertyIdentifier)
    IN  IF IsArray(dt) /\ index # None
        THEN IF IntOf(index) = 0 THEN "Unsigned" ELSE SubtypeOf(dt)
        ELSE dt

\* C29: a read_property that ended on an acknowledgment whose own object
\* type and property resolve to a datatype has decoded the payload with that
\* datatype, or, when the datatype is an array and an index was requested,
\* as an unsigned count for index 0 and as the element type for any other
\* index: it returns the decoded value exactly when the payload has that
\* type.
C29_DecodeTypeFromAck ==
    \A t \in Threads :
        (/\ op[t] = "read_property"
         /\ pc[t] = "idle"
         /\ iocb[t] # NoIocb
         /\ iocb[t].ioError = None
         /\ IsPdu(iocb[t].ioResponse, "ReadPropertyACK")
         /\ ~Unresolved(get_datatype(iocb[t].ioResponse.objectIdentifier[1],
                                     iocb[t].ioResponse.propertyIdentifier)))
        =>
            LET apdu == iocb[t].ioResponse
                klass == C29_ClaimedClass(apdu, args[t].index)
            IN  IF CastOutDefined(apdu.propertyValue, klass)
                THEN /\ res[t].kind = "returned"
                     /\ res[t].data.r = "value"
                     /\ res[t].data.value = JsonValue(apdu.propertyValue)
                ELSE res[t] = Raised("read_property", "DecodingError")

\* the record of the most recent cache_device carrying instance i since the
\* last clear_device_cache in log, None when there is none
RECURSIVE C22_Latest(_, _)
C22_Latest(log, i) ==
    IF log = <<>> THEN None
    ELSE LET e == log[Len(log)] IN
         IF e.call = "clear_device_cache" THEN None
         ELSE IF "device_instance" \in DOMAIN e.device
                 /\ e.device.device_instance = i
         THEN e.device
         ELSE C22_Latest(SubSeq(log, 1, Len(log) - 1), i)

\* the source MAC of the record rec, None without a record or a MAC
C22_Mac(rec) ==
    IF rec # None /\ "source_mac" \in DOMAIN rec THEN PyInt(rec.source_mac)
    ELSE None

\* C22: whatever calls of cache_device and clear_device_cache the threads
\* have made, the cache holds for each instance the record of the most
\* recent cache_device carrying it since the last clear and nothing else;
\* a lookup returns that record, or its source MAC, or None, without raising
\* and without changing the cache; a cache_device without instance changes
\* nothing, one with instance i changes no other entry, and an entry
\* disappears only in a clear_device_cache.
C22_CacheIsMap ==
    /\ [](\A i \in CacheKeys \cup DOMAIN device_cache :
            DictGet(device_cache, i) = C22_Latest(cacheLog, i))
    /\ [][\A t \in Threads :
            (/\ cacheLog' = cacheLog
             /\ op'[t] \in {"get_device_by_id", "get_mac_for_device"}
             /\ <<op[t], args[t], res[t]>> # <<op'[t], args'[t], res'[t]>>)
            =>
                LET i == args'[t].device_id
                    rec == C22_Latest(cacheLog, i)
                IN  /\ device_cache' = device_cache
                    /\ res'[t] = Returned(op'[t],
                                    IF op'[t] = "get_device_by_id" THEN rec
                                    ELSE C22_Mac(rec))
         ]_vars
    /\ [][cacheLog' # cacheLog =>
            LET e == cacheLog'[Len(cacheLog')] IN
            IF e.call = "clear_device_cache" THEN device_cache' = EmptyDict
            ELSE /\ DOMAIN device_cache \subseteq DOMAIN device_cache'
                 /\ IF "device_instance" \in DOMAIN e.device
                    THEN \A k \in DOMAIN device_cache :
                            k # e.device.device_instance =>
                               device_cache'[k] = device_cache[k]
                    ELSE device_cache' = device_cache
         ]_vars

\* after a record for instance 0 was replaced by another, a thread has
\* looked up the MAC of instance 0 and another the record of an instance
\* never cached
C22_Witness ==
    /\ Len(cacheLog) = 2
    /\ cacheLog[1].call = "cache_device"
    /\ cacheLog[2].call = "cache_device"
    /\ cacheLog[1].device = [device_instance |-> 0, source_mac |-> 1]
    /\ cacheLog[2].device = [device_instance |-> 0, source_mac |-> 2]
    /\ op[1] = "get_mac_for_device"
    /\ args[1] = [device_id |-> 0]
    /\ res[1] = Returned("get_mac_for_device", PyInt(2))
    /\ op[2] = "get_device_by_id"
    /\ args[2] = [device_id |-> 20]
    /\ res[2] = Returned("get_device_by_id", None)

C26_ShutdownIdempotent ==
    [][\A t \in Threads :
          mstp_shutdown(t) =>
             /\ res'[t] = Returned("mstp_shutdown", None)
             /\ pc'[t] = "idle"
             /\ UNCHANGED <<lock, started, app, deferredFns, launches>>
             /\ engine' # "running"
             /\ engine # "running" => engine' = engine
      ]_vars

\* both threads have called mstp_shutdown on a session that was started, the
\* second on the engine the first had stopped
C26_Witness ==
    /\ \A t \in Threads : op[t] = "mstp_shutdown" /\ pc[t] = "idle"
    /\ \A t \in Threads : res[t] = Returned("mstp_shutdown", None)
    /\ engine = "stopped"
    /\ started

\* C27: a start of the session whose configuration lacks the local address
\* or the interface ends with the configuration error raised to the caller:
\* the application handle, the engine and the number of engine threads are
\* what they were, the lock is released and the session is not started.
C27_MissingAddressOrInterface ==
    [][\A t \in Threads :
          (/\ pc[t] = "es_init"
           /\ pc'[t] # "es_init"
           /\ (args'[t].address = None \/ args'[t].interface = None))
          =>
             /\ res'[t] = Raised(op[t], "ConfigError")
             /\ pc'[t] = "idle"
             /\ app' = app
             /\ engine' = engine
             /\ launches' = launches
             /\ lock' = NoThread
             /\ ~started'
      ]_vars

\* the first start of the session, with a readable configuration that has
\* an address and no interface, has failed
C27_Witness ==
    \E t \in Threads :
        /\ args[t] = Config(TRUE, PyInt(25), None)
        /\ res[t] = Raised("mstp_init_only", "ConfigError")
        /\ pc[t] = "idle"
        /\ app = 0
        /\ engine = "none"
        /\ launches = 0
        /\ ~started
        /\ lock = NoThread

\* the schema file has an entry that is an object whose access value, made
\* a string, upper-cased and trimmed, is neither R nor R/W
C28_BadAccess(file) ==
    /\ file.exists
    /\ file.root = "object"
    /\ \E k \in DOMAIN file.entries :
          /\ file.entries[k].isDict
          /\ "access" \in DOMAIN file.entries[k].v
          /\ Strip(Upper(PyStr(file.entries[k].v.access)))
                \notin {<<"R">>, <<"R", "/", "W">>}

\* C28: a call of load_object_type_definitions on a schema with an entry
\* whose access is neither R nor R/W ends with an error, and the
\* definitions in memory after the call are exactly those before it.
C28_InvalidAccessRejected ==
    [][\A t \in Threads :
          (/\ op'[t] = "load_object_type_definitions"
           /\ load_object_type_definitions(t, args'[t])
           /\ C28_BadAccess(args'[t]))
          =>
             /\ res'[t] = Raised("load_object_type_definitions",
                                 "ValueError")
             /\ defs' = defs
      ]_vars

\* with definitions in memory, the load of a schema whose first entry is
\* valid and new and whose second entry has a refused access has failed
C28_Witness ==
    \E t \in Threads :
        /\ op[t] = "load_object_type_definitions"
        /\ res[t] = Raised("load_object_type_definitions", "ValueError")
        /\ C28_BadAccess(args[t])
        /\ Len(args[t].entries) = 2
        /\ args[t].entries[1].isDict
        /\ AccessValid(NormMember(args[t].entries[1].v, "access", <<"R">>))
        /\ args[t].entries[1].key \notin DOMAIN defs
        /\ defs # EmptyDict

\* the semantic type the loaded schema gives to obj_type, UNKNOWN without one
C23_Semantic(obj_type) ==
    IF obj_type \in DOMAIN defs THEN defs[obj_type].bacnet_type.s
    ELSE <<"U", "N", "K", "N", "O", "W", "N">>

\* the words of the statement of C23
C23_TrueWords ==
    { <<"1">>, <<"t", "r", "u", "e">>, <<"o", "n">>, <<"a", "c", "t", "i", "v", "e">>, <<"e", "n", "a", "b", "l", "e", "d">>,
      <<"e", "n", "a", "b", "l", "e">>, <<"s", "e", "t">> }
C23_FalseWords ==
    { <<"0">>, <<"f", "a", "l", "s", "e">>, <<"o", "f", "f">>, <<"i", "n", "a", "c", "t", "i", "v", "e">>, <<"d", "i", "s", "a", "b", "l", "e", "d">>,
      <<"d", "i", "s", "a", "b", "l", "e">>, <<"r", "e", "s", "e", "t">>, <<"c", "l", "e", "a", "r">> }

C23_IsNumber(raw) == raw.py \in {"int", "float"}

\* the boolean the statement of C23 gives for a bool, a number or a string;
\* a string is taken without its surrounding whitespace and in lower case
C23_Boolean(raw) ==
    IF raw.py = "bool" THEN raw.b
    ELSE IF raw.py = "int" THEN raw.n # 0
    ELSE IF raw.py = "float" THEN raw.m # 0
    ELSE LET w == Lower(Strip(raw.s)) IN
         IF w \in C23_TrueWords THEN TRUE
         ELSE IF w \in C23_FalseWords THEN FALSE
         ELSE IF IsIntLiteral(w) THEN IntOfStr(w) # 0
         ELSE w # <<>>

\* the integer n is a nearest integer of the number x
C23_Nearest(n, x) ==
    IF x.py = "int" THEN n = x.n
    ELSE 2 * Abs(n * Pow10(x.e) - x.m) <= Pow10(x.e)

\* C23: parse_present_value has dispatched on the semantic type that the
\* loaded schema gives to the object type. BOOLEAN: a bool, a number or a
\* string gives the boolean of the word list, of the truthiness of the
\* number, of the integer the string spells, or else of the string being
\* non-empty once trimmed. REAL: a result is a float, and a number or a
\* numeric string gives the float of its value. INTEGER, UNSIGNED and
\* ENUMERATED: a result is an integer, a bool gives 0 or 1, a number a
\* nearest integer and a string that spells an integer that integer. Any
\* other semantic type and an object type without definition: the string
\* form, empty for None.
C23_ParseDispatch ==
    \A t \in Threads :
        op[t] = "parse_present_value" =>
            LET raw == args[t].value
                sem == C23_Semantic(args[t].obj_type)
                r == res[t]
            IN
            IF sem = <<"B", "O", "O", "L", "E", "A", "N">>
            THEN (raw # None) =>
                    r = Returned("parse_present_value",
                                 PyBool(C23_Boolean(raw)))
            ELSE IF sem = <<"R", "E", "A", "L">>
            THEN /\ r.kind = "returned" => r.data.py = "float"
                 /\ C23_IsNumber(raw) =>
                       r = Returned("parse_present_value", FloatOf(raw))
                 /\ (raw.py = "str" /\ IsFloatLiteral(raw.s)) =>
                       r = Returned("parse_present_value",
                                    FloatOfStr(raw.s))
            ELSE IF sem \in {<<"I", "N", "T", "E", "G", "E", "R">>, <<"U", "N", "S", "I", "G", "N", "E", "D">>, <<"E", "N", "U", "M", "E", "R", "A", "T", "E", "D">>}
            THEN /\ r.kind = "returned" => r.data.py = "int"
                 /\ raw.py = "bool" =>
                       r = Returned("parse_present_value",
                                    PyInt(IF raw.b THEN 1 ELSE 0))
                 /\ C23_IsNumber(raw) =>
                       /\ r.kind = "returned"
                       /\ C23_Nearest(r.data.n, raw)
                 /\ (raw.py = "str" /\ IsIntLiteral(raw.s)) =>
                       r = Returned("parse_present_value",
                                    PyInt(IntOfStr(raw.s)))
            ELSE r = Returned("parse_present_value",
                              IF raw = None THEN Str(<<>>)
                              ELSE IF raw.py = "str" THEN raw
                              ELSE Str(PyStr(raw)))

\* under the loaded schema a word of the false list in capitals and behind
\* a blank has given false for a BOOLEAN object type
C23_Witness ==
    \E t \in Threads :
        /\ op[t] = "parse_present_value"
        /\ "binaryOutput" \in DOMAIN defs
        /\ defs["binaryOutput"].bacnet_type = Str(<<"B", "O", "O", "L", "E", "A", "N">>)
        /\ args[t] = [obj_type |-> "binaryOutput",
                      value |-> Str(<<" ", "C", "l", "e", "a", "r">>)]
        /\ res[t] = Returned("parse_present_value", PyBool(FALSE))

\* C24: encode_present_value_for_write has returned its value argument
\* unchanged, except that for binaryOutput and binaryValue the boolean true
\* has become "active" and the boolean false "inactive"; no value that is
\* not a boolean has been altered.
C24_EncodeIdentityExceptBinary ==
    \A t \in Threads :
        op[t] = "encode_present_value_for_write" =>
            LET value == args[t].value IN
            res[t] = Returned("encode_present_value_for_write",
                        IF args[t].obj_type \in {"binaryOutput", "binaryValue"}
                           /\ value.py = "bool"
                        THEN IF value.b THEN Str(<<"a", "c", "t", "i", "v", "e">>)
                             ELSE Str(<<"i", "n", "a", "c", "t", "i", "v", "e">>)
                        ELSE value)

\* C25: what encode_present_value_for_write has returned for binaryOutput
\* and a boolean b is a string that the write-value parser turns into an
\* encoded value for the present value of a binaryOutput, and that
\* parse_present_value turns into b again.
C25_BinaryOutputRoundTrip ==
    \A t \in Threads :
        (/\ op[t] = "encode_present_value_for_write"
         /\ args[t].obj_type = "binaryOutput"
         /\ args[t].value.py = "bool")
        =>
            LET encoded == res[t].data
                dt == get_datatype("binaryOutput", "presentValue")
            IN  /\ res[t].kind = "returned"
                /\ IsStr(encoded)
                /\ \A lib \in BOOLEAN :
                      ParseWriteValue(dt, encoded, None, lib).kind = "encoded"
                /\ ParsePresentValue(defs, "binaryOutput", encoded) =
                      Value(args[t].value)

(* ------------------------------- C31 ----------------------------------- *)

\* the three accumulators of the closure d
C31_Accumulators(d) == <<d.index_queue, d.results, d.error_holder>>

\* C31: the pending-index queue, the result list and the error accumulator of
\* an enumeration are changed by the engine thread only, and the caller reads
\* them when no change can follow: no step of the caller alters them, the
\* object list discover returned is the content of the result list for as
\* long as the closure exists, after a seen signal as after a timeout, and
\* no step alters the accumulators once the caller has read them.
C31_SingleWriterFinalSnapshot ==
    /\ [][\A t \in Threads :
            (\E w \in BOOLEAN : discover_return(t, w))
               => C31_Accumulators(disc'[t]) = C31_Accumulators(disc[t])]_vars
    /\ [](\A t \in Threads :
            disc[t].state = "returned"
               => res[t].data.object_list = JsonSafe(disc[t].results))
    /\ [][\A t \in Threads :
            disc[t].state = "returned" /\ disc'[t].state = "returned"
               => C31_Accumulators(disc'[t]) = C31_Accumulators(disc[t])]_vars

(* ------------------------------- C32 ----------------------------------- *)

\* the closure d can make no further step and has not raised its signal
C32_Stalled(d) ==
    /\ d.state \in {"open", "returned"}
    /\ ~d.done
    /\ ~Live(d)

\* C32: the completion signal of an enumeration is raised only in a state
\* where the pending-index queue is empty and no read is outstanding, or
\* where an error has been recorded; a closure never stands with pending
\* indexes, no read outstanding and nothing scheduled; and, the engine
\* answering every read handed to it, the signal of every enumeration begun
\* is eventually raised (unless the thread's next call takes its place).
C32_CompletionSignal ==
    /\ [][\A t \in Threads :
            /\ disc[t].state \in {"open", "returned"}
            /\ disc'[t].state \in {"open", "returned"}
            /\ ~disc[t].done
            /\ disc'[t].done
            => \/ /\ disc'[t].index_queue = <<>>
                  /\ disc'[t].pending = <<>>
               \/ disc'[t].error_holder # <<>>]_vars
    /\ [](\A t \in Threads :
            ~(C32_Stalled(disc[t]) /\ disc[t].index_queue # <<>>))
    /\ \A t \in Threads :
          (disc[t].state = "open") ~> (disc[t].state = "none" \/ disc[t].done)

(* ------------------------------- C36 ----------------------------------- *)

\* C36: a step in which the initialisation inside ensure_started fails (the
\* configuration load, the construction of the local device or of the
\* application, the launch of the engine thread) leaves the session not
\* started and without application handle, so that _Core.app() fails for as
\* long as no start has succeeded; and no state has an application handle
\* while no engine thread has been launched.
C36_FailedStartLeavesNothing ==
    /\ [][\A t \in Threads :
            pc[t] \in {"es_init", "es_launch"} /\ res'[t].kind = "raised"
               => ~started' /\ app' = 0 /\ AppRaises']_vars
    /\ [](~started /\ lock = NoThread => AppRaises)
    /\ [](app # 0 => launches > 0)

(* ------------------------------- C34 ----------------------------------- *)

\* a capacity below the number of responses that arrive
C34_Capacity == MaxIAm - 1

\* C34: the queue into which the engine thread delivers the discovery
\* responses is bounded: whatever the arrivals and the calls of whois, with
\* or without a call collecting, the number of queued responses never
\* exceeds a fixed capacity (here: one less than the number of arrivals).
C34_QueueBounded == Len(iamQueue) <= C34_Capacity

(* ------------------------------- C37 ----------------------------------- *)

\* the first reply of the closure d made _on_reply fill index_queue: an
\* acknowledgment of an array property that carries index 0 and a count
C37_CountReceived(d) ==
    /\ Len(d.replies) >= 1
    /\ LET rep == d.replies[1] IN
       /\ rep.err = None
       /\ IsPdu(rep.rsp, "ReadPropertyACK")
       /\ IsArray(get_datatype(rep.rsp.objectIdentifier[1],
                               rep.rsp.propertyIdentifier))
       /\ rep.rsp.propertyArrayIndex = PyInt(0)
       /\ CastOutDefined(rep.rsp.propertyValue, "Unsigned")

\* the count n of that reply
C37_Count(d) == IntOf(CastOut(d.replies[1].rsp.propertyValue))

\* C37: in every state of an enumeration after the element count n has been
\* received and before any abort, objects appended + indexes pending + reads
\* outstanding = n, the pending queue is the contiguous ascending range from
\* the next unread index to n, and the result list holds at most n objects;
\* in every state the error accumulator holds at most one entry, and once it
\* is non-empty no further read is submitted.
C37_EnumerationInvariants ==
    /\ [](\A t \in Threads :
            (/\ Discovering(t)
             /\ C37_CountReceived(disc[t])
             /\ disc[t].error_holder = <<>>) =>
                LET d == disc[t]
                    n == C37_Count(d)
                    read == Len(d.results) + Len(d.pending)
                IN
                /\ read + Len(d.index_queue) = n
                /\ d.index_queue =
                      [i \in 1 .. Len(d.index_queue) |-> read + i]
                /\ Len(d.results) <= n)
    /\ [](\A t \in Threads :
            Discovering(t) => Len(disc[t].error_holder) <= 1)
    /\ [][\A t \in Threads :
            (/\ Discovering(t)
             /\ disc[t].error_holder # <<>>
             /\ disc'[t].state # "none") =>
                disc'[t].reads = disc[t].reads]_vars

(* ------------------------------- C33 ----------------------------------- *)

\* no destination is given: None, or the empty string
C33_NoDestination(inp) == inp.dest = None \/ inp.dest = Str(<<>>)

\* the request the claim describes for the arguments inp
C33_Described(req, inp) ==
    /\ req.service = "WhoIs"
    /\ C33_NoDestination(inp) => req.pduDestination = GlobalBroadcast
    /\ ~C33_NoDestination(inp) =>
          req.pduDestination = Address(inp.dest).addr
    /\ IF inp.low_limit # None /\ inp.high_limit # None
       THEN /\ req.deviceInstanceRangeLowLimit = inp.low_limit
            /\ req.deviceInstanceRangeHighLimit = inp.high_limit
       ELSE /\ req.deviceInstanceRangeLowLimit = None
            /\ req.deviceInstanceRangeHighLimit = None

\* C33: a call of whois hands one Who-Is request to the engine, never more:
\* none while it drains, exactly one from the end of the drain to its return
\* (none when it ends with an exception); the request is a global broadcast
\* when no destination is given and is addressed to the destination
\* otherwise, and carries the instance range only when both limits are
\* given. The request is handed over in a step that found the queue empty,
\* and the call drains nothing after it, so that no response to its own
\* request is removed by its drain.
C33_OneRequestAfterDrain ==
    /\ [](\A t \in Threads :
            who[t].state \in {"open", "returned", "raised"} =>
                /\ who[t].sent = IF who[t].state = "raised"
                                    \/ (who[t].state = "open"
                                        /\ pc[t] = "w_drain")
                                 THEN 0 ELSE 1
                /\ who[t].sent = 1 => C33_Described(who[t].req, who[t].inp))
    /\ [][\A t \in Threads :
            (/\ who[t].state = "open"
             /\ who'[t].state = "open"
             /\ who[t].sent = 0
             /\ who'[t].sent # 0) =>
                /\ who'[t].sent = 1
                /\ iamQueue = <<>>
                /\ deferredFns' = Append(deferredFns, "whois_send")]_vars
    /\ [][\A t \in Threads :
            (/\ who[t].state = "open"
             /\ who[t].sent = 1
             /\ who'[t].state \in {"open", "returned"}) =>
                /\ who'[t].sent = 1
                /\ who'[t].req = who[t].req
                /\ who'[t].drained = who[t].drained]_vars

\* a call addressed to station 5 with the range 0..20 drained a stale
\* response, handed its request over and returned a response received after
C33_Witness ==
    \E t \in Threads :
        /\ who[t].state = "returned"
        /\ who[t].inp.dest = Str(<<"5">>)
        /\ who[t].inp.low_limit = PyInt(0)
        /\ who[t].sent = 1
        /\ who[t].req.pduDestination =
              [addrType |-> "localStation", addrAddr |-> 5]
        /\ who[t].req.deviceInstanceRangeLowLimit = PyInt(0)
        /\ who[t].req.deviceInstanceRangeHighLimit = PyInt(20)
        /\ who[t].drained >= 1
        /\ Len(who[t].dequeued) >= 1

(* ------------------------------- C35 ----------------------------------- *)

\* s is an initial part of s2
C35_Prefix(s, s2) == Len(s) <= Len(s2) /\ SubSeq(s2, 1, Len(s)) = s

\* from c to c2 the chain has gone on or stood still: what was appended and
\* what was read is kept, and it is still the engine's to work on unless it
\* has come to its end
C35_GoesOn(c, c2) ==
    /\ c2.state = "returned"
    /\ c2.inp = c.inp
    /\ C35_Prefix(c.results, c2.results)
    /\ C35_Prefix(c.reads, c2.reads)
    /\ C35_Prefix(c.replies, c2.replies)
    /\ \/ Live(c2)
       \/ c2.index_queue = <<>>
       \/ c2.error_holder # <<>>

\* the closure c has come to its end: the pending queue exhausted or an
\* error recorded
C35_Ended(c) == c.index_queue = <<>> \/ c.error_holder # <<>>

\* the engine's loop has been ended
C35_Stopped == engine # "running"

\* C35 as stated: the chain of a call that has returned goes on in every
\* step and comes to its end, whatever the caller does after the return.
C35_ChainNeverCancelled ==
    \A t \in Threads :
        /\ (disc[t].state = "returned" /\ Live(disc[t]))
              ~> (disc[t].state # "returned" \/ ~Live(disc[t]))
        /\ Live(orphan[t]) ~> ~Live(orphan[t])

\* C35, amended: an enumeration chain is never cancelled. Once discover has
\* returned with reads outstanding or a continuation scheduled, every step
\* leaves the chain in place or further on (results appended, reads
\* submitted), also when the caller begins its next call, which leaves the
\* closure to the engine unchanged; a chain stops being worked on only with
\* its pending queue exhausted or an error recorded, and it does come to
\* that end unless the caller stops the engine with mstp_shutdown.
C35_NeverCancelledWhileRunning ==
    /\ [][\A t \in Threads :
            (disc[t].state = "returned" /\ Live(disc[t])) =>
                \/ C35_GoesOn(disc[t], disc'[t])
                \/ orphan'[t] = disc[t]]_vars
    /\ [][\A t \in Threads :
            Live(orphan[t]) => C35_GoesOn(orphan[t], orphan'[t])]_vars
    /\ [](\A t \in Threads :
            /\ (disc[t].state = "returned" /\ ~Live(disc[t]))
                   => C35_Ended(disc[t])
            /\ (orphan[t].state = "returned" /\ ~Live(orphan[t]))
                   => C35_Ended(orphan[t]))
    /\ \A t \in Threads :
          /\ (disc[t].state = "returned" /\ Live(disc[t]))
                ~> \/ disc[t].state # "returned"
                   \/ ~Live(disc[t])
                   \/ C35_Stopped
          /\ Live(orphan[t]) ~> (~Live(orphan[t]) \/ C35_Stopped)

\* the chain of a call that timed out was brought to its end by the engine
\* while the thread was in its next call, and the chain of that next call,
\* which returned an empty list on timeout, has been appended to since
C35_Witness ==
    \E t \in Threads :
        /\ orphan[t].state = "returned"
        /\ ~orphan[t].woken
        /\ orphan[t].done
        /\ Len(orphan[t].results) = MaxCount
        /\ disc[t].state = "returned"
        /\ ~disc[t].woken
        /\ op[t] = "discover"
        /\ res[t].data.object_list = <<>>
        /\ Len(disc[t].results) >= 1

(* ------------------------------- C39 ----------------------------------- *)

\* C39: every APDU passed to indication is forwarded to the base
\* application's indication exactly once, whatever its class, its identifier
\* type and the outcome of the capture, and an I-Am is put in the queue
\* exactly when its identifier type is device and all of its fields could be
\* extracted.
C39_ForwardedOnce ==
    [][\A apdu \in Apdus :
          indication(apdu) =>
             /\ forwarded'.base = 1
             /\ (iamQueue' # iamQueue) <=>
                   /\ apdu.kind = "IAmRequest"
                   /\ apdu.dev_type = "device"
                   /\ apdu.wellFormed]_vars

(* ------------------------------- C38 ----------------------------------- *)

\* the records of the sequence s, by their sequence numbers
C38_Seqs(s) == { s[i].seq : i \in DOMAIN s }

\* the device instances of the sequence s
C38_Devices(s) == { s[i].device_instance : i \in DOMAIN s }

\* the list thread t was returned by its last call of whois, empty when it
\* was returned none
C38_Result(t) ==
    IF /\ res[t].op = "whois"
       /\ res[t].kind = "returned"
    THEN res[t].data.l
    ELSE <<>>

\* C38: overlapping calls of whois share one queue. Every record is taken
\* by one call only and returned to one caller at most: no record is
\* dequeued twice by a call, none by two calls, and none is in the results
\* of two callers. A call during which no other call was in its body takes
\* every record that leaves the queue after its drain, in order, and the
\* device of each is in its result.
C38_SharedQueue ==
    /\ \A t \in Threads :
          who[t].state \in {"open", "returned"} =>
             /\ Cardinality(C38_Seqs(who[t].dequeued))
                   = Len(who[t].dequeued)
             /\ ~who[t].over =>
                   \A i \in DOMAIN who[t].dequeued :
                      /\ who[t].dequeued[i].seq = who[t].s0 + i
                      /\ who[t].dequeued[i].device_instance
                            \in C38_Devices(who[t].seen)
             /\ who[t].state = "returned" => C38_Result(t) = who[t].seen
    /\ \A t, u \in Threads :
          t # u =>
             /\ (/\ who[t].state \in {"open", "returned"}
                 /\ who[u].state \in {"open", "returned"})
                   => C38_Seqs(who[t].dequeued)
                         \cap C38_Seqs(who[u].dequeued) = {}
             /\ C38_Seqs(C38_Result(t)) \cap C38_Seqs(C38_Result(u)) = {}

\* call A has returned without a device whose I-Am was put after A's drain
\* and taken by the overlapping call B before A took a later one
C38_Witness ==
    \E a, b \in Threads :
        /\ a # b
        /\ who[a].state = "returned"
        /\ who[a].over
        /\ who[b].state \in {"open", "returned"}
        /\ \E i \in DOMAIN who[b].dequeued, j \in DOMAIN who[a].dequeued :
              /\ who[b].dequeued[i].seq > who[a].s0
              /\ who[b].dequeued[i].seq < who[a].dequeued[j].seq
              /\ who[b].dequeued[i].device_instance
                    \notin C38_Devices(C38_Result(a))

(* ------------------------------- C40 ----------------------------------- *)

\* C40: a write whose type differs from the stored one is answered
\* TYPE_MISMATCH, calls no write_property and leaves the stored value; a
\* write of the matching type makes exactly one call of write_property, for
\* presentValue at priority 8, and when the handler ends the stored value is
\* the written data and the answer OK, whatever write_property came to.
C40_WriteHandler ==
    /\ [][\A data \in NodeWrites :
            on_write(data) =>
               IF node._data.vt # data.vt
               THEN /\ node'.answer = [result |-> "TYPE_MISMATCH",
                                       data |-> None]
                    /\ node'.calls = <<>>
                    /\ node'._data = node._data
                    /\ node'.state = "ready"
                    /\ UNCHANGED <<pc, op, submitted>>
               ELSE /\ Len(node'.calls) = 1
                    /\ node'.calls[1].target.prop = "presentValue"
                    /\ node'.calls[1].priority = PyInt(8)
                    /\ op'[1] = "write_property"
                    /\ pc'[1] # "idle"]_vars
    /\ [][node.state = "writing" =>
            \/ /\ node'.state = "writing"
               /\ node'.calls = node.calls
               /\ node'._data = node._data
               /\ op'[1] = "write_property"
            \/ /\ node'.state = "ready"
               /\ node'.calls = node.calls
               /\ node'._data = node.w
               /\ node'.answer = [result |-> "OK", data |-> node.w]]_vars

====
